---- MODULE Spec2Model ----
(***************************************************************************)
(* Model of the veloren server tick engine (server/src/lib.rs): the        *)
(* per-connection protocol state machine, the chunk generation pipeline    *)
(* and the phases of Server::tick.                                         *)
(*                                                                         *)
(* The tick thread is modelled phase by phase (variable pc); the worker    *)
(* pool and the clients are the environment.  Client messages, new        *)
(* connections and the outcome of the world step are inputs of the phase   *)
(* that reads them.                                                        *)
(***************************************************************************)
EXTENDS Integers, Sequences, FiniteSets, TLC

(***************************************************************************)
(* Bounds of the model.                                                    *)
(***************************************************************************)
\* Number of client entities: the connections accepted over a run of SpecCap.
MaxEnts == 2
\* Number of connections accepted over a run of Spec.
ChunkConns == 1
\* Number of connections accepted over a run of SpecFsm.
FsmConns == 1
\* Number of client messages drained in one tick of SpecFsm, over all sessions.
FsmBatch == 1
\* Number of client messages drained in one tick of SpecBatch, over all sessions.
MaxBatch == 2
\* Number of client messages drained in one tick of Spec, over all sessions.
ChunkBatch == 1
\* Number of client messages drained in one tick of SpecBuild, over all sessions.
BuildBatch == 2
\* Number of snapshots the tick thread stores over a run of SpecSave.
MaxStores == 3
\* Number of control messages that wait in the channel of the save loop.
MaxSaveMsgs == 1
\* Number of client messages drained in one tick of SpecCap, over all sessions.
CapBatch == 1
\* server_settings.max_players of the modelled configuration.
MaxPlayers == 1
\* Saturation value of the per-key request counters.
MaxCount == 2
\* Connections of the run with timeouts and transport errors.
NetConns == 1
\* Messages drained by one tick of that run.
NetBatch == 1
\* The server time, in seconds, up to which that run advances the clock.
MaxTime == 31
\* Messages drained by one tick of the run with several sessions.
IsoBatch == 2
\* The largest view distance the in-view tests are applied to.
MaxVd == 3
\* Messages drained by one tick of the run with moving characters.
SyncBatch == 2

\* Option<T>: None is the empty sequence, Some(x) the sequence of x alone.
None == <<>>
Some(x) == <<x>>

Ents == 1..MaxEnts

(***************************************************************************)
(* Positions, chunk keys and view distances.                               *)
(***************************************************************************)
\* SpawnPoint(Vec3::new(16_384.0, 16_384.0, 512.0)); x and y only.
SpawnPoint == <<16384, 16384>>
\* A position eight chunks east of the spawn point.
FarPoint == <<16640, 16384>>
Positions == {SpawnPoint, FarPoint}

\* Edge length of a chunk in blocks (TerrainChunkSize::SIZE.x and .y).
ChunkSize == 32

\* TerrainMap::pos_key: the key of the chunk containing a block position.
pos_key(p) == <<p[1] \div ChunkSize, p[2] \div ChunkSize>>

\* The chunk of the spawn point and the chunk four keys east of it, which is
\* at the edge of view distance 2 from SpawnPoint and from FarPoint.
NearKey == <<512, 512>>
EdgeKey == <<516, 512>>
Keys == {NearKey, EdgeKey}

\* The block positions clients edit: the block at the spawn point, which
\* lies in the chunk NearKey.
BlockPositions == {SpawnPoint}

\* Block values: what the generator put, Block::empty() and a placed block.
Generated == "generated"
Empty == "empty"
Stone == "stone"

\* View distances a client may announce.
VDs == {2}

Abs(x) == IF x < 0 THEN -x ELSE x

\* (e.abs() as u32).checked_sub(2).unwrap_or(0)
checked_sub_2(e) == IF Abs(e) >= 2 THEN Abs(e) - 2 ELSE 0

\* The in-view test of the result-consumption loop of Server::tick.
adjusted_dist_sqr(chunk_pos, key) ==
    LET dx == checked_sub_2(chunk_pos[1] - key[1])
        dy == checked_sub_2(chunk_pos[2] - key[2])
    IN  dx * dx + dy * dy

\* Mutant of near_view: the comparison is strict.
near_view_strict(p, key, vd) == adjusted_dist_sqr(pos_key(p), key) < vd * vd

near_view(p, key, vd) == adjusted_dist_sqr(pos_key(p), key) <= vd * vd

\* Mutant of chunk_in_vd: the slack of two chunks is missing.
chunk_in_vd_tight(player_pos, chunk_pos, vd) ==
    LET player_chunk_pos == pos_key(player_pos)
        dx == Abs(player_chunk_pos[1] - chunk_pos[1])
        dy == Abs(player_chunk_pos[2] - chunk_pos[2])
    IN  dx * dx + dy * dy <= vd * vd

\* fn chunk_in_vd of Server::tick, used by eviction and changed-chunk sync.
chunk_in_vd(player_pos, chunk_pos, vd) ==
    LET player_chunk_pos == pos_key(player_pos)
        dx == checked_sub_2(player_chunk_pos[1] - chunk_pos[1])
        dy == checked_sub_2(player_chunk_pos[2] - chunk_pos[2])
    IN  dx * dx + dy * dy <= vd * vd

(***************************************************************************)
(* Protocol messages.                                                      *)
(***************************************************************************)
\* enum ClientState
ClientStates == {"Pending", "Connected", "Registered", "Spectator", "Character", "Dead"}

\* enum RequestStateError
Errors == {"Denied", "Already", "Impossible", "WrongMessage"}

Alias == "Bob"

\* ClientMsg::RequestState(state)
RequestState(st) == [type |-> "RequestState", state |-> st]
\* ClientMsg::Register { player, password }: valid is player.is_valid(),
\* auth the answer of accounts.query for the alias and password.
Register(valid, auth, vd) ==
    [type |-> "Register", valid |-> valid, auth |-> auth, view_distance |-> vd]
\* ClientMsg::Character { name, body }
Character == [type |-> "Character"]
Controller == [type |-> "Controller"]
ChatMsg == [type |-> "ChatMsg", message |-> <<"text">>]
\* The chat message "/build"
BuildCmd == [type |-> "ChatMsg", message |-> <<"/", "build">>]
BreakBlock(p) == [type |-> "BreakBlock", pos |-> p]
PlaceBlock(p, block) == [type |-> "PlaceBlock", pos |-> p, block |-> block]
SetViewDistance(vd) == [type |-> "SetViewDistance", view_distance |-> vd]
PlayerPhysics(p) == [type |-> "PlayerPhysics", pos |-> p]
TerrainChunkRequest(k) == [type |-> "TerrainChunkRequest", key |-> k]
Ping == [type |-> "Ping"]
Pong == [type |-> "Pong"]
Disconnect == [type |-> "Disconnect"]

\* Server messages.
StateAnswerOk(st) == [type |-> "StateAnswer", ok |-> TRUE, state |-> st]
StateAnswerErr(err, st) == [type |-> "StateAnswer", ok |-> FALSE, error |-> err, state |-> st]
ForceState(st) == [type |-> "ForceState", state |-> st]
TerrainChunkUpdate(k) == [type |-> "TerrainChunkUpdate", key |-> k]
EntityPos(e, p) == [type |-> "EntityPos", entity |-> e, pos |-> p]
ServerChat(text) == [type |-> "ChatMsg", message |-> text]
InitialSync(e) == [type |-> "InitialSync", entity_uid |-> e]
Shutdown == [type |-> "Shutdown"]
TooManyPlayers == [type |-> "Error", error |-> "TooManyPlayers"]
ServerPing == [type |-> "Ping"]
ServerPong == [type |-> "Pong"]
ServerDisconnect == [type |-> "Disconnect"]

\* Texts of the broadcast chat messages.
OnlineText(alias) == <<"[", alias, "] is now online.">>
OfflineText(alias) == <<alias, " went offline.">>
PlayerText(alias) == <<"[", alias, "] ">>

\* The messages of the session state machine.
FsmMsgs ==
    {RequestState(st) : st \in ClientStates}
        \cup {Register(TRUE, TRUE, None), Register(TRUE, FALSE, None),
              Register(FALSE, TRUE, None)}
        \cup {Character, Controller, Ping, Disconnect, PlayerPhysics(FarPoint)}

\* The messages of a session that registers and enters the world.
CapMsgs == {Register(TRUE, TRUE, None), Character}

\* The messages of the terrain pipeline.
ChunkMsgs ==
    {Register(TRUE, TRUE, Some(vd)) : vd \in VDs}
        \cup {Character, Disconnect}
        \cup {PlayerPhysics(p) : p \in Positions}
        \cup {TerrainChunkRequest(k) : k \in Keys}

(***************************************************************************)
(* State.                                                                  *)
(***************************************************************************)
VARIABLES
    pc,               \* phase of Server::tick the tick thread executes next
    time,             \* resource Time of the ECS, in seconds
    uids,             \* number of client entities created so far
    clients,          \* registry: entity -> [client_state, last_ping]
    player,           \* component Player: entity -> Option of [alias, view_distance]
    pos,              \* component Pos: entity -> None or the position
    stats,            \* component Stats: entity -> Option of [is_dead]
    dying,            \* entities that hold a Dying component
    respawning,       \* entities that hold a Respawning component
    npcs,             \* chunk keys in which a generated NPC entity stands
    terrain,          \* TerrainMap: keys of the loaded chunks
    terrain_changes,  \* TerrainChanges: new_chunks, modified_chunks, removed_chunks
    pending_chunks,   \* Server::pending_chunks
    jobs,             \* worker pool: key -> number of generation jobs running
    chunk_rx,         \* completion channel: sequence of [key, npcs]
    sent,             \* entity -> messages sent to its postbox by the last phase
    log,              \* entity -> one record per message drained by the last phase
    frontend_events,  \* events returned by the current tick so far
    refused,          \* entities whose connection arrived at capacity
    denied,           \* entities whose Register was answered with Denied
    gen_calls,        \* key -> generate_chunk calls since its last consumption
    consumed,         \* Option of the result consumed by the last poll
    panicked,         \* the tick thread panicked
    silent,           \* entity -> Option of [idle, error] of a session drained without message
    force_update,     \* entities that hold a ForceUpdate component
    last_pos,         \* component Last<Pos>: entity -> Option of the position last synced
    view,             \* Option of [client_pos, entity_pos, vd, out]: inputs and results of the in-view tests
    can_build,        \* entities that hold a CanBuild component
    block_change,     \* resource BlockChange: block position -> Option of the block to set
    blocks,           \* blocks of the TerrainMap: block position -> Option of the block, None where no chunk is loaded
    edits,            \* the list modified_blocks of the last handle_new_messages: <<position, block>>
    server,           \* life of the Server object: "running", "dropping" (in Drop), "down"
    save_pc,          \* position of the thread of init_save_loop
    wait_time,        \* its local wait_time, in milliseconds
    bufmap,           \* its local bufmap: key -> Option of the snapshot
    rx,               \* channel of SaveMsg to the thread
    chunks,           \* Provider::chunks, the shared buffer: key -> Option of the snapshot
    mutex,            \* holder of the mutex of Provider::chunks: "free", "tick" or "saver"
    set_arg,          \* Option of the [pos, chunk] of the set_chunk call that holds the mutex
    version,          \* number of snapshots stored so far; the next snapshot is version + 1
    files,            \* chunk files of the world folder: key -> Option of the snapshot
    stored,           \* key -> the snapshots stored since the last swap of the thread
    taken,            \* key -> the snapshots stored before the last swap and after the one before
    flush,            \* the writes of the thread since its last swap: [pos, chunk, ok]
    slept,            \* Option of the duration of the last sleep of the thread
    rate,             \* Option of the x of the last RATE(x) the thread processed
    during,           \* keys whose entry of chunks was stored while the thread was writing
    world_dir         \* Option of the inputs and results of Provider::new, save and load

\* The state of the provider: the save loop, its buffer and the world folder.
savevars == <<server, save_pc, wait_time, bufmap, rx, chunks, mutex, set_arg, version,
              files, stored, taken, flush, slept, rate, during, world_dir>>

\* The state of the tick thread.
tickvars == <<pc, time, uids, clients, player, pos, stats, dying, respawning, npcs,
              terrain, terrain_changes, pending_chunks, jobs, chunk_rx, sent, log,
              frontend_events, refused, denied, gen_calls, consumed, panicked, silent,
              force_update, last_pos, view, can_build, block_change, blocks, edits>>

vars == <<tickvars, savevars>>

NoSent == [e \in Ents |-> <<>>]

\* `let mut wait_time = 1000;` of the save loop, in milliseconds
DefaultWait == 1000

\* HashMap::new() of chunk snapshots
NoChunks == [k \in Keys |-> None]

\* enum SaveMsg
END == [type |-> "END"]
RATE(x) == [type |-> "RATE", x |-> x]

\* Server::bind: the state after construction.
InitWorld ==
    /\ pc = "connections"
    /\ time = 0
    /\ uids = 0
    /\ clients = <<>>
    /\ player = [e \in Ents |-> None]
    /\ pos = [e \in Ents |-> None]
    /\ stats = [e \in Ents |-> None]
    /\ dying = {}
    /\ respawning = {}
    /\ npcs = {}
    /\ terrain = {}
    /\ terrain_changes = [new_chunks |-> {}, modified_chunks |-> {}, removed_chunks |-> {},
                          modified_blocks |-> [p \in BlockPositions |-> None]]
    /\ pending_chunks = {}
    /\ jobs = [k \in Keys |-> 0]
    /\ chunk_rx = <<>>
    /\ sent = NoSent
    /\ log = NoSent
    /\ frontend_events = <<>>
    /\ refused = {}
    /\ denied = {}
    /\ gen_calls = [k \in Keys |-> 0]
    /\ consumed = None
    /\ panicked = FALSE
    /\ silent = [e \in Ents |-> None]
    /\ force_update = {}
    /\ last_pos = [e \in Ents |-> None]
    /\ can_build = {}
    /\ block_change = [p \in BlockPositions |-> None]
    /\ blocks = [p \in BlockPositions |-> None]
    /\ edits = <<>>
    \* Provider::new and init_save_loop: the thread is at the top of its loop
    /\ server = "running"
    /\ save_pc = "sleep"
    /\ wait_time = DefaultWait
    /\ bufmap = NoChunks
    /\ rx = <<>>
    /\ chunks = NoChunks
    /\ mutex = "free"
    /\ set_arg = None
    /\ version = 0
    /\ files = NoChunks
    /\ stored = [k \in Keys |-> {}]
    /\ taken = [k \in Keys |-> {}]
    /\ flush = <<>>
    /\ slept = None
    /\ rate = None
    /\ during = {}

Init == InitWorld /\ view = None /\ world_dir = None

(***************************************************************************)
(* Client and Clients (the registry).                                      *)
(***************************************************************************)
\* Client::notify / postbox.send_message
notify(s, e, msg) == [s EXCEPT !.sent[e] = Append(@, msg)]

\* Client::allow_state
allow_state(s, e, new_state) ==
    [s EXCEPT !.clients[e].client_state = new_state,
              !.sent[e] = Append(@, StateAnswerOk(new_state))]

\* Client::error_state
error_state(s, e, error) ==
    [s EXCEPT !.sent[e] = Append(@, StateAnswerErr(error, s.clients[e].client_state))]

\* Client::force_state
force_state(s, e, new_state) ==
    [s EXCEPT !.clients[e].client_state = new_state,
              !.sent[e] = Append(@, ForceState(new_state))]

\* Clients::notify: to the session of the entity, if it has one.
clients_notify(s, e, msg) ==
    IF e \in DOMAIN s.clients THEN notify(s, e, msg) ELSE s

\* Clients::notify_registered: to every session that is past Connected.
notify_registered(s, msg) ==
    [s EXCEPT !.sent = [e \in Ents |->
        IF e \in DOMAIN s.clients /\ s.clients[e].client_state # "Connected"
        THEN Append(@[e], msg) ELSE @[e]]]

\* Clients::add
clients_add(cs, e, client) == [x \in DOMAIN cs \cup {e} |-> IF x = e THEN client ELSE cs[x]]

\* Clients::len
clients_len(cs) == Cardinality(DOMAIN cs)

(***************************************************************************)
(* Server::handle_new_connections                                          *)
(***************************************************************************)
max_players == MaxPlayers

\* One iteration of the loop over postoffice.new_postboxes().
accept_postbox(s) ==
    LET entity == s.uids + 1
        client == [client_state |-> "Connected", last_ping |-> s.time]
        full == max_players <= clients_len(s.clients)
        msg == IF full THEN TooManyPlayers ELSE InitialSync(entity)
    IN  [s EXCEPT !.uids = entity,
                  !.sent[entity] = Append(@, msg),
                  !.frontend_events =
                      IF full THEN @
                      ELSE Append(@, [type |-> "ClientConnected", entity |-> entity]),
                  !.refused = IF full THEN @ \cup {entity} ELSE @,
                  !.clients = clients_add(@, entity, client)]

RECURSIVE accept_postboxes(_, _)
accept_postboxes(s, n) ==
    IF n = 0 THEN s ELSE accept_postboxes(accept_postbox(s), n - 1)

\* Mutant of ListenerError: the error is returned after the connections
\* were accepted.
ListenerErrorLate ==
    /\ pc = "connections"
    /\ \E n \in 0..(NetConns - uids) :
        LET s0 == [uids |-> uids, time |-> time, clients |-> clients, sent |-> sent,
                   frontend_events |-> frontend_events, refused |-> refused]
        IN  \E s1 \in {accept_postboxes(s0, n)} :
            /\ uids' = s1.uids
            /\ clients' = s1.clients
            /\ sent' = s1.sent
            /\ frontend_events' = s1.frontend_events
            /\ refused' = s1.refused
    /\ pc' = "failed"
    /\ UNCHANGED <<time, player, pos, stats, dying, respawning, npcs, terrain,
                   terrain_changes, pending_chunks, jobs, chunk_rx, log, denied,
                   gen_calls, consumed, panicked, silent, force_update, last_pos, view,
                   can_build, block_change, blocks, edits, savevars>>

\* The start of Server::tick when the listener reports an error:
\* `if let Some(err) = self.postoffice.error() { return Err(err.into()); }`.
\* The caller stops at the error, so that no tick follows.
ListenerError ==
    /\ pc = "connections"
    /\ pc' = "failed"
    /\ UNCHANGED <<time, uids, clients, player, pos, stats, dying, respawning, npcs,
                   terrain, terrain_changes, pending_chunks, jobs, chunk_rx, sent, log,
                   frontend_events, refused, denied, gen_calls, consumed, panicked,
                   silent, force_update, last_pos, view,
                   can_build, block_change, blocks, edits, savevars>>

\* The start of Server::tick up to and including handle_new_connections;
\* n is the number of connections that arrived since the last tick, Conns
\* the number of connections of the run.
HandleNewConnections(Conns) ==
    /\ pc = "connections"
    /\ \E n \in 0..(Conns - uids) :
        LET s0 == [uids |-> uids, time |-> time, clients |-> clients, sent |-> NoSent,
                   frontend_events |-> <<>>, refused |-> refused]
        IN  \E s1 \in {accept_postboxes(s0, n)} :
            /\ uids' = s1.uids
            /\ clients' = s1.clients
            /\ sent' = s1.sent
            /\ frontend_events' = s1.frontend_events
            /\ refused' = s1.refused
    /\ log' = NoSent
    /\ silent' = [e \in Ents |-> None]
    /\ edits' = <<>>
    /\ consumed' = None
    /\ pc' = "messages"
    /\ UNCHANGED <<time, player, pos, stats, dying, respawning, npcs, terrain,
                   terrain_changes, pending_chunks, jobs, chunk_rx, denied,
                   gen_calls, panicked, force_update, last_pos, view,
                   can_build, block_change, blocks, savevars>>

(***************************************************************************)
(* Server::handle_new_messages                                             *)
(*                                                                         *)
(* The handler works on a record s of everything it reads and writes:      *)
(* the registry, the components, the postboxes and its local lists         *)
(* new_chat_msgs, disconnected_clients and requested_chunks; disconnect    *)
(* is the flag of the session being drained and stop tells that `break`    *)
(* left the loop over its messages.                                        *)
(***************************************************************************)
CLIENT_TIMEOUT == 20

\* The client entities in the order of their ids.
RECURSIVE pos_sync(_, _, _)
pos_sync(s, e, x) ==
    IF x > MaxEnts THEN s
    ELSE pos_sync(IF s.pos[x] # None THEN notify(s, e, EntityPos(x, s.pos[x])) ELSE s,
                  e, x + 1)

\* Server::initialize_player
initialize_player(s, e, pl) ==
    LET s1 == [s EXCEPT !.player[e] = pl]
        s2 == pos_sync(s1, e, 1)
    IN  allow_state(s2, e, "Registered")

\* Mutant of create_player_character: the position is not written.
create_player_character_unplaced(s, e) ==
    LET s1 == [s EXCEPT !.stats[e] = Some([is_dead |-> FALSE]),
                        !.force_update = @ \cup {e},
                        !.panicked = @ \/ s.player[e] = None]
    IN  allow_state(s1, e, "Character")

\* Server::create_player_character; reading the alias of an entity without
\* Player component is the panic of `.get(entity).unwrap()`.
create_player_character(s, e) ==
    LET s1 == [s EXCEPT !.stats[e] = Some([is_dead |-> FALSE]),
                        !.pos[e] = SpawnPoint,
                        !.force_update = @ \cup {e},
                        !.panicked = @ \/ s.player[e] = None]
    IN  allow_state(s1, e, "Character")

\* The arms of `match ... { Connected => Impossible, Spectator => Already,
\* Registered | Character | Dead => allow_state(Spectator), Pending => {} }`
\* applied to the value the code matches on.
spectator_arms(s, e, scrutinee) ==
    CASE scrutinee = "Connected" -> error_state(s, e, "Impossible")
      [] scrutinee = "Spectator" -> error_state(s, e, "Already")
      [] scrutinee \in {"Registered", "Character", "Dead"} -> allow_state(s, e, "Spectator")
      [] OTHER -> s

\* Mutant of request_state: RequestState(Connected) is ignored.
request_state_default(s, e, requested_state) ==
    LET client_state == s.clients[e].client_state
    IN  CASE requested_state = "Registered" ->
                CASE client_state = "Connected" -> error_state(s, e, "WrongMessage")
                  [] client_state = "Registered" -> error_state(s, e, "Already")
                  [] client_state \in {"Spectator", "Character", "Dead"} ->
                        allow_state(s, e, "Registered")
                  [] OTHER -> s
          [] requested_state = "Spectator" -> spectator_arms(s, e, requested_state)
          [] requested_state = "Character" -> error_state(s, e, "WrongMessage")
          [] requested_state = "Dead" -> error_state(s, e, "Impossible")
          [] OTHER -> s

\* ClientMsg::RequestState(requested_state)
request_state(s, e, requested_state) ==
    LET client_state == s.clients[e].client_state
    IN  CASE requested_state = "Connected" -> [s EXCEPT !.disconnect = TRUE]
          [] requested_state = "Registered" ->
                CASE client_state = "Connected" -> error_state(s, e, "WrongMessage")
                  [] client_state = "Registered" -> error_state(s, e, "Already")
                  [] client_state \in {"Spectator", "Character", "Dead"} ->
                        allow_state(s, e, "Registered")
                  [] OTHER -> s
          [] requested_state = "Spectator" -> spectator_arms(s, e, requested_state)
          [] requested_state = "Character" -> error_state(s, e, "WrongMessage")
          [] requested_state = "Dead" -> error_state(s, e, "Impossible")
          [] OTHER -> s

\* Mutant of register: a denied session is disconnected.
register_strict(s, e, m) ==
    IF m.valid
    THEN IF ~m.auth
         THEN [error_state(s, e, "Denied") EXCEPT !.stop = TRUE, !.disconnect = TRUE]
         ELSE IF s.clients[e].client_state = "Connected"
              THEN initialize_player(s, e, Some([alias |-> Alias, view_distance |-> m.view_distance]))
              ELSE error_state(s, e, "Impossible")
    ELSE error_state(s, e, "Impossible")

\* ClientMsg::Register { player, password }
register(s, e, m) ==
    IF m.valid
    THEN IF ~m.auth
         THEN [error_state(s, e, "Denied") EXCEPT !.stop = TRUE]
         ELSE IF s.clients[e].client_state = "Connected"
              THEN initialize_player(s, e, Some([alias |-> Alias, view_distance |-> m.view_distance]))
              ELSE error_state(s, e, "Impossible")
    ELSE error_state(s, e, "Impossible")

\* Mutant of character: the arm of Connected is merged with that of Registered.
character_unguarded(s, e) ==
    LET client_state == s.clients[e].client_state
    IN  CASE client_state \in {"Connected", "Registered", "Spectator", "Dead"} ->
                LET s1 == create_player_character(s, e)
                IN  IF s1.player[e] # None
                    THEN [s1 EXCEPT !.new_chat_msgs =
                            Append(@, [entity |-> None,
                                       msg |-> ServerChat(OnlineText(s1.player[e][1].alias))])]
                    ELSE s1
          [] client_state = "Character" -> error_state(s, e, "Already")
          [] OTHER -> s

\* ClientMsg::Character { name, body }
character(s, e) ==
    LET client_state == s.clients[e].client_state
    IN  CASE client_state = "Connected" -> error_state(s, e, "Impossible")
          [] client_state \in {"Registered", "Spectator", "Dead"} ->
                LET s1 == create_player_character(s, e)
                IN  IF s1.player[e] # None
                    THEN [s1 EXCEPT !.new_chat_msgs =
                            Append(@, [entity |-> None,
                                       msg |-> ServerChat(OnlineText(s1.player[e][1].alias))])]
                    ELSE s1
          [] client_state = "Character" -> error_state(s, e, "Already")
          [] OTHER -> s

\* Mutant of terrain_chunk_request: a loaded chunk is sent and generated anew.
terrain_chunk_request_anew(s, e, key) ==
    LET client_state == s.clients[e].client_state
    IN  CASE client_state \in {"Connected", "Registered", "Dead"} ->
                error_state(s, e, "Impossible")
          [] client_state \in {"Spectator", "Character"} ->
                IF key \in s.terrain
                THEN [notify(s, e, TerrainChunkUpdate(key))
                        EXCEPT !.requested_chunks = Append(@, key)]
                ELSE [s EXCEPT !.requested_chunks = Append(@, key)]
          [] OTHER -> s

\* ClientMsg::TerrainChunkRequest { key }
terrain_chunk_request(s, e, key) ==
    LET client_state == s.clients[e].client_state
    IN  CASE client_state \in {"Connected", "Registered", "Dead"} ->
                error_state(s, e, "Impossible")
          [] client_state \in {"Spectator", "Character"} ->
                IF key \in s.terrain
                THEN notify(s, e, TerrainChunkUpdate(key))
                ELSE [s EXCEPT !.requested_chunks = Append(@, key)]
          [] OTHER -> s

\* One iteration of `for msg in new_msgs`.
handle_msg(s, e, m) ==
    LET client_state == s.clients[e].client_state
    IN  CASE m.type = "RequestState" -> request_state(s, e, m.state)
          [] m.type = "Register" -> register(s, e, m)
          [] m.type = "SetViewDistance" ->
                IF client_state = "Character" /\ s.player[e] # None
                THEN [s EXCEPT !.player[e][1].view_distance = Some(m.view_distance)]
                ELSE s
          [] m.type = "Character" -> character(s, e)
          [] m.type = "Controller" ->
                IF client_state \in {"Connected", "Registered", "Spectator"}
                THEN error_state(s, e, "Impossible")
                ELSE s
          [] m.type = "ChatMsg" ->
                CASE client_state = "Connected" -> error_state(s, e, "Impossible")
                  [] client_state \in {"Registered", "Spectator", "Dead", "Character"} ->
                        [s EXCEPT !.new_chat_msgs =
                            Append(@, [entity |-> Some(e), msg |-> ServerChat(m.message)])]
                  [] OTHER -> s
          [] m.type = "PlayerPhysics" ->
                IF client_state = "Character"
                THEN [s EXCEPT !.pos[e] = m.pos]
                ELSE error_state(s, e, "Impossible")
          [] m.type = "BreakBlock" ->
                IF e \in s.can_build
                THEN [s EXCEPT !.modified_blocks = Append(@, <<m.pos, Empty>>)]
                ELSE s
          [] m.type = "PlaceBlock" ->
                IF e \in s.can_build
                THEN [s EXCEPT !.modified_blocks = Append(@, <<m.pos, m.block>>)]
                ELSE s
          [] m.type = "TerrainChunkRequest" -> terrain_chunk_request(s, e, m.key)
          [] m.type = "Ping" -> notify(s, e, ServerPong)
          [] m.type = "Pong" -> s
          [] m.type = "Disconnect" -> [s EXCEPT !.disconnect = TRUE]

Range(seq) == {seq[i] : i \in 1..Len(seq)}

\* The part of a sequence after its first n elements.
Rest(seq, n) == SubSeq(seq, n + 1, Len(seq))

\* The record of the log for message m, handled from state s to state t.
LogEntry(s, t, e, m, handled) ==
    [msg |-> m,
     handled |-> handled,
     from |-> s.clients[e].client_state,
     to |-> t.clients[e].client_state,
     reply |-> Rest(t.sent[e], Len(s.sent[e])),
     chat |-> Rest(t.new_chat_msgs, Len(s.new_chat_msgs)),
     requested |-> Rest(t.requested_chunks, Len(s.requested_chunks)),
     entity_from |-> [player |-> s.player[e], pos |-> s.pos[e], stats |-> s.stats[e]],
     entity_to |-> [player |-> t.player[e], pos |-> t.pos[e], stats |-> t.stats[e]],
     teardown |-> t.disconnect /\ ~s.disconnect]

\* `for msg in new_msgs { ... }`: after `break` the remaining messages of
\* the batch are dropped unhandled.
RECURSIVE handle_msgs(_, _, _, _)
handle_msgs(s, e, new_msgs, i) ==
    IF i > Len(new_msgs) THEN s
    ELSE LET m == new_msgs[i]
             t == IF s.stop THEN s ELSE handle_msg(s, e, m)
         IN  handle_msgs([t EXCEPT !.log[e] = Append(@, LogEntry(s, t, e, m, ~s.stop))],
                         e, new_msgs, i + 1)

\* Mutant of drain_client: the flags disconnect and stop are not those of
\* the session but shared by the sessions of the drain.
drain_client_shared(s, e, new_msgs, error) ==
    LET idle == s.time - s.clients[e].last_ping
        s0 == [s EXCEPT !.silent[e] = IF Len(new_msgs) > 0 THEN None
                                      ELSE Some([idle |-> idle, error |-> error])]
        s1 == IF Len(new_msgs) > 0
              THEN handle_msgs([s0 EXCEPT !.clients[e].last_ping = s.time], e, new_msgs, 1)
              ELSE IF idle > CLIENT_TIMEOUT \/ error
                   THEN [s0 EXCEPT !.disconnect = TRUE]
                   ELSE s0
    IN  IF s1.disconnect
        THEN LET s3 == notify(s1, e, ServerDisconnect)
             IN  [s3 EXCEPT !.disconnected_clients = Append(@, e),
                            !.clients = [x \in DOMAIN @ \ {e} |-> @[x]]]
        ELSE s1

\* Mutant of drain_client: a session is timed out as soon as its idle time
\* reaches the timeout.
drain_client_eager(s, e, new_msgs, error) ==
    LET idle == s.time - s.clients[e].last_ping
        s0 == [s EXCEPT !.disconnect = FALSE, !.stop = FALSE,
                        !.silent[e] = IF Len(new_msgs) > 0 THEN None
                                      ELSE Some([idle |-> idle, error |-> error])]
        s1 == IF Len(new_msgs) > 0
              THEN handle_msgs([s0 EXCEPT !.clients[e].last_ping = s.time], e, new_msgs, 1)
              ELSE IF idle >= CLIENT_TIMEOUT \/ error
                   THEN [s0 EXCEPT !.disconnect = TRUE]
                   ELSE s0
    IN  IF s1.disconnect
        THEN LET s3 == notify(s1, e, ServerDisconnect)
             IN  [s3 EXCEPT !.disconnected_clients = Append(@, e),
                            !.clients = [x \in DOMAIN @ \ {e} |-> @[x]]]
        ELSE s1

\* Mutant of drain_client: the server pings as soon as the idle time reaches
\* half the timeout.
drain_client_hasty(s, e, new_msgs, error) ==
    LET idle == s.time - s.clients[e].last_ping
        s0 == [s EXCEPT !.disconnect = FALSE, !.stop = FALSE,
                        !.silent[e] = IF Len(new_msgs) > 0 THEN None
                                      ELSE Some([idle |-> idle, error |-> error])]
        s1 == IF Len(new_msgs) > 0
              THEN handle_msgs([s0 EXCEPT !.clients[e].last_ping = s.time], e, new_msgs, 1)
              ELSE IF idle > CLIENT_TIMEOUT \/ error
                   THEN [s0 EXCEPT !.disconnect = TRUE]
                   ELSE IF 2 * idle >= CLIENT_TIMEOUT
                        THEN notify(s0, e, ServerPing)
                        ELSE s0
    IN  IF s1.disconnect
        THEN LET s2 == IF s1.player[e] # None
                       THEN [s1 EXCEPT !.new_chat_msgs =
                               Append(@, [entity |-> None,
                                          msg |-> ServerChat(OfflineText(s1.player[e][1].alias))])]
                       ELSE s1
                 s3 == notify(s2, e, ServerDisconnect)
             IN  [s3 EXCEPT !.disconnected_clients = Append(@, e),
                            !.clients = [x \in DOMAIN @ \ {e} |-> @[x]]]
        ELSE s1

\* The closure of `self.clients.remove_if(|entity, client| ...)` for one
\* session; error tells that client.postbox.error() is Some.
drain_client(s, e, new_msgs, error) ==
    LET idle == s.time - s.clients[e].last_ping
        s0 == [s EXCEPT !.disconnect = FALSE, !.stop = FALSE,
                        !.silent[e] = IF Len(new_msgs) > 0 THEN None
                                      ELSE Some([idle |-> idle, error |-> error])]
        s1 == IF Len(new_msgs) > 0
              THEN handle_msgs([s0 EXCEPT !.clients[e].last_ping = s.time], e, new_msgs, 1)
              ELSE IF idle > CLIENT_TIMEOUT \/ error
                   THEN [s0 EXCEPT !.disconnect = TRUE]
                   ELSE IF 2 * idle > CLIENT_TIMEOUT
                        THEN notify(s0, e, ServerPing)
                        ELSE s0
    IN  IF s1.disconnect
        THEN LET s2 == IF s1.player[e] # None
                       THEN [s1 EXCEPT !.new_chat_msgs =
                               Append(@, [entity |-> None,
                                          msg |-> ServerChat(OfflineText(s1.player[e][1].alias))])]
                       ELSE s1
                 s3 == notify(s2, e, ServerDisconnect)
             IN  [s3 EXCEPT !.disconnected_clients = Append(@, e),
                            !.clients = [x \in DOMAIN @ \ {e} |-> @[x]]]
        ELSE s1

\* remove_if visits the sessions in the order of the hash map: order.
RECURSIVE drain_clients(_, _, _, _, _)
drain_clients(s, order, batches, errors, i) ==
    IF i > Len(order) THEN s
    ELSE drain_clients(drain_client(s, order[i], batches[order[i]], order[i] \in errors),
                       order, batches, errors, i + 1)

\* handle_build of cmd.rs: "/build" toggles the component CanBuild.
handle_build(s, entity) ==
    IF entity \in s.can_build
    THEN clients_notify([s EXCEPT !.can_build = @ \ {entity}], entity,
                        ServerChat(<<"Toggled off build mode!">>))
    ELSE clients_notify([s EXCEPT !.can_build = @ \cup {entity}], entity,
                        ServerChat(<<"Toggled on build mode!">>))

\* Server::process_chat_cmd for the keyword "build"
process_chat_cmd(s, entity, cmd) ==
    IF Head(cmd) = "build" THEN handle_build(s, entity) ELSE s

\* "Handle new chat messages."
RECURSIVE handle_chat(_, _)
handle_chat(s, i) ==
    IF i > Len(s.new_chat_msgs) THEN s
    ELSE LET c == s.new_chat_msgs[i]
             text == IF c.entity = None THEN c.msg.message
                     ELSE IF s.player[c.entity[1]] # None
                          THEN PlayerText(s.player[c.entity[1]][1].alias) \o c.msg.message
                          ELSE <<"[<Unknown>] ">> \o c.msg.message
         IN  IF c.entity # None /\ Head(c.msg.message) = "/" /\ Len(c.msg.message) > 1
             THEN handle_chat(process_chat_cmd(s, c.entity[1], Tail(c.msg.message)), i + 1)
             ELSE handle_chat(notify_registered(s, ServerChat(text)), i + 1)

\* Mutant of handle_disconnects: the entity is not deleted.
RECURSIVE handle_disconnects_kept(_, _)
handle_disconnects_kept(s, i) ==
    IF i > Len(s.disconnected_clients) THEN s
    ELSE LET e == s.disconnected_clients[i]
         IN  handle_disconnects_kept(
                [s EXCEPT !.frontend_events =
                              Append(@, [type |-> "ClientDisconnected", entity |-> e])],
                i + 1)

\* "Handle client disconnects.": delete_entity_synced and the frontend event.
RECURSIVE handle_disconnects(_, _)
handle_disconnects(s, i) ==
    IF i > Len(s.disconnected_clients) THEN s
    ELSE LET e == s.disconnected_clients[i]
         IN  handle_disconnects(
                [s EXCEPT !.player[e] = None,
                          !.pos[e] = None,
                          !.stats[e] = None,
                          !.dying = @ \ {e},
                          !.respawning = @ \ {e},
                          !.force_update = @ \ {e},
                          !.last_pos[e] = None,
                          !.can_build = @ \ {e},
                          !.frontend_events =
                              Append(@, [type |-> "ClientDisconnected", entity |-> e])],
                i + 1)

Sat(n) == IF n >= MaxCount THEN MaxCount ELSE n

\* Mutant of generate_chunk: the test of pending_chunks is missing.
generate_chunk_unchecked(s, key) ==
    [s EXCEPT !.gen_calls[key] = Sat(@ + 1),
              !.pending_chunks = @ \cup {key},
              !.jobs[key] = @ + 1]

\* Mutant of generate_chunk: the key is marked pending and no job is started.
generate_chunk_jobless(s, key) ==
    [s EXCEPT !.gen_calls[key] = Sat(@ + 1),
              !.pending_chunks = @ \cup {key}]

\* Server::generate_chunk
generate_chunk(s, key) ==
    LET s1 == [s EXCEPT !.gen_calls[key] = Sat(@ + 1)]
    IN  IF key \notin s.pending_chunks
        THEN [s1 EXCEPT !.pending_chunks = @ \cup {key},
                        !.jobs[key] = @ + 1]
        ELSE s1

\* "Generate requested chunks."
RECURSIVE generate_requested(_, _)
generate_requested(s, i) ==
    IF i > Len(s.requested_chunks) THEN s
    ELSE generate_requested(generate_chunk(s, s.requested_chunks[i]), i + 1)

\* BlockChange::set
block_change_set(bc, p, block) == [bc EXCEPT ![p] = Some(block)]

\* `for (pos, block) in modified_blocks { self.state.set_block(pos, block); }`
RECURSIVE set_blocks(_, _)
set_blocks(s, i) ==
    IF i > Len(s.modified_blocks) THEN s
    ELSE set_blocks([s EXCEPT !.block_change =
                        block_change_set(@, s.modified_blocks[i][1], s.modified_blocks[i][2])],
                    i + 1)

(***************************************************************************)
(* The inputs of handle_new_messages.                                      *)
(***************************************************************************)
\* The sequences of at most n messages of the set Msgs.
Batches(Msgs, n) == UNION {[1..k -> Msgs] : k \in 0..n}

\* The ways to hand at most n messages in all to the sessions of S.
RECURSIVE Assign(_, _, _)
Assign(S, Msgs, n) ==
    IF S = {} THEN {<<>>}
    ELSE LET e == CHOOSE x \in S : TRUE
         IN  UNION {{[x \in S |-> IF x = e THEN b ELSE f[x]] :
                        f \in Assign(S \ {e}, Msgs, n - Len(b))} :
                    b \in Batches(Msgs, n)}

\* The orders in which a hash map may enumerate the set S.
RECURSIVE Orders(_)
Orders(S) ==
    IF S = {} THEN {<<>>}
    ELSE UNION {{<<e>> \o o : o \in Orders(S \ {e})} : e \in S}

\* Server::handle_new_messages.  Msgs are the messages clients send, Batch
\* the number of messages drained and Broken the sessions whose transport
\* may report an error.
HandleNewMessages(Msgs, Batch, Broken) ==
    /\ pc = "messages"
    /\ \E batches \in Assign(DOMAIN clients, Msgs, Batch),
          order \in Orders(DOMAIN clients),
          errors \in SUBSET (DOMAIN clients \cap Broken) :
        LET s0 == [time |-> time, clients |-> clients, player |-> player, pos |-> pos,
                   stats |-> stats, dying |-> dying, respawning |-> respawning,
                   terrain |-> terrain, sent |-> NoSent, log |-> NoSent,
                   new_chat_msgs |-> <<>>, disconnected_clients |-> <<>>,
                   requested_chunks |-> <<>>, disconnect |-> FALSE, stop |-> FALSE,
                   silent |-> [e \in Ents |-> None],
                   frontend_events |-> frontend_events, panicked |-> panicked,
                   pending_chunks |-> pending_chunks, jobs |-> jobs,
                   gen_calls |-> gen_calls, force_update |-> force_update,
                   last_pos |-> last_pos, can_build |-> can_build,
                   block_change |-> block_change, modified_blocks |-> <<>>]
            s1 == drain_clients(s0, order, batches, errors, 1)
            s2 == handle_chat(s1, 1)
            s3 == handle_disconnects(s2, 1)
        IN  \E s4 \in {set_blocks(generate_requested(s3, 1), 1)} :
            /\ clients' = s4.clients
            /\ player' = s4.player
            /\ pos' = s4.pos
            /\ stats' = s4.stats
            /\ dying' = s4.dying
            /\ respawning' = s4.respawning
            /\ sent' = s4.sent
            /\ log' = s4.log
            /\ silent' = s4.silent
            /\ force_update' = s4.force_update
            /\ last_pos' = s4.last_pos
            /\ can_build' = s4.can_build
            /\ block_change' = s4.block_change
            /\ edits' = s4.modified_blocks
            /\ frontend_events' = s4.frontend_events
            /\ panicked' = s4.panicked
            /\ pending_chunks' = s4.pending_chunks
            /\ jobs' = s4.jobs
            /\ gen_calls' = s4.gen_calls
            /\ denied' = denied \cup {e \in Ents : \E i \in 1..Len(s4.log[e]) :
                                        StateAnswerErr("Denied", s4.log[e][i].from)
                                            \in Range(s4.log[e][i].reply)}
    /\ pc' = "step"
    /\ UNCHANGED <<time, uids, npcs, terrain, terrain_changes, chunk_rx, refused, consumed,
                   view, blocks, savevars>>

(***************************************************************************)
(* State::tick: the world step.                                            *)
(***************************************************************************)
\* State::tick.  dt is drawn from Dts; the systems of the world step mark
\* entities of Mortal whose health ran out as Dying and dead entities whose
\* controller asks for it as Respawning.
StateTick(Dts, Mortal) ==
    /\ pc = "step"
    /\ \E dt \in Dts : time' = time + dt
    /\ \E D \in SUBSET {e \in Mortal : stats[e] # None /\ ~stats[e][1].is_dead} :
       \E R \in SUBSET {e \in Mortal : stats[e] # None /\ stats[e][1].is_dead} :
        /\ dying' = D
        /\ respawning' = R
        /\ stats' = [e \in Ents |-> IF e \in D THEN Some([is_dead |-> TRUE]) ELSE stats[e]]
    /\ sent' = NoSent
    /\ log' = NoSent
    /\ silent' = [e \in Ents |-> None]
    /\ pc' = "recv"
    \* "Apply terrain changes"
    /\ blocks' = [p \in BlockPositions |->
                    IF block_change[p] # None /\ pos_key(p) \in terrain
                    THEN block_change[p] ELSE blocks[p]]
    /\ terrain_changes' = [terrain_changes EXCEPT !.modified_blocks = block_change]
    /\ block_change' = [p \in BlockPositions |-> None]
    /\ UNCHANGED <<uids, clients, player, pos, npcs, terrain, pending_chunks, jobs,
                   chunk_rx, frontend_events, refused, denied, gen_calls, consumed,
                   panicked, force_update, last_pos, view, can_build, edits, savevars>>

(***************************************************************************)
(* The generation pipeline.                                                *)
(***************************************************************************)
\* The job of generate_chunk on a worker thread: chunk_tx.send((key,
\* world.get_chunk(key))); npcs is the number of NPCs of the supplement.
WorkerFinish ==
    \E key \in Keys, n \in 0..1 :
        /\ jobs[key] > 0
        /\ jobs' = [jobs EXCEPT ![key] = @ - 1]
        /\ chunk_rx' = Append(chunk_rx, [key |-> key, npcs |-> n])
        /\ UNCHANGED <<pc, time, uids, clients, player, pos, stats, dying, respawning,
                       npcs, terrain, terrain_changes, pending_chunks, sent, log,
                       frontend_events, refused, denied, gen_calls, consumed, panicked, silent, force_update, last_pos, view,
                   can_build, block_change, blocks, edits, savevars>>

\* Mutant of insert_chunk: the change is recorded, the chunk is not stored.
insert_chunk_dropped(t, key) ==
    [terrain |-> t.terrain,
     terrain_changes |-> [t.terrain_changes EXCEPT !.new_chunks = @ \cup {key}],
     blocks |-> t.blocks]

\* State::insert_chunk on the pair <<terrain, terrain_changes>>
insert_chunk(t, key) ==
    [terrain |-> t.terrain \cup {key},
     terrain_changes |->
        IF key \in t.terrain
        THEN [t.terrain_changes EXCEPT !.modified_chunks = @ \cup {key}]
        ELSE [t.terrain_changes EXCEPT !.new_chunks = @ \cup {key}],
     \* the chunk comes with the blocks the generator gave it
     blocks |-> [p \in BlockPositions |->
                    IF pos_key(p) = key THEN Some(Generated) ELSE t.blocks[p]]]

\* State::remove_chunk on the pair <<terrain, terrain_changes>>
remove_chunk(t, key) ==
    [terrain |-> t.terrain \ {key},
     terrain_changes |->
        IF key \in t.terrain
        THEN [t.terrain_changes EXCEPT !.removed_chunks = @ \cup {key}]
        ELSE t.terrain_changes,
     blocks |-> [p \in BlockPositions |-> IF pos_key(p) = key THEN None ELSE t.blocks[p]]]

\* The entities joined over Player and Pos whose view distance is set.
Viewers == {e \in Ents : player[e] # None /\ pos[e] # None /\ player[e][1].view_distance # None}

\* Mutant of try_recv: the results behind the first are thrown away.
try_recv_drain(q) == [msg |-> Head(q), rest |-> <<>>]

\* mpsc::Receiver::try_recv on a channel that holds a message: the oldest
\* message, the others stay in their order.
try_recv(q) == [msg |-> Head(q), rest |-> Tail(q)]

\* Step 5 of Server::tick: poll the completion channel once.
RecvChunk ==
    /\ pc = "recv"
    /\ IF chunk_rx # <<>>
       THEN LET key == try_recv(chunk_rx).msg.key
                near == {e \in Viewers : near_view(pos[e], key, player[e][1].view_distance[1])}
                t == insert_chunk([terrain |-> terrain, terrain_changes |-> terrain_changes,
                                   blocks |-> blocks],
                                  key)
            IN  /\ chunk_rx' = try_recv(chunk_rx).rest
                /\ sent' = [e \in Ents |->
                              IF e \in near /\ e \in DOMAIN clients
                              THEN <<TerrainChunkUpdate(key)>> ELSE <<>>]
                /\ terrain' = t.terrain
                /\ terrain_changes' = t.terrain_changes
                /\ blocks' = t.blocks
                /\ pending_chunks' = pending_chunks \ {key}
                /\ npcs' = IF Head(chunk_rx).npcs > 0 THEN npcs \cup {key} ELSE npcs
                /\ consumed' = Some([key |-> key, npcs |-> Head(chunk_rx).npcs,
                                     pending |-> key \in pending_chunks,
                                     gen_calls |-> gen_calls[key]])
                /\ gen_calls' = [gen_calls EXCEPT ![key] = 0]
       ELSE /\ sent' = NoSent
            /\ consumed' = None
            /\ UNCHANGED <<chunk_rx, terrain, terrain_changes, pending_chunks, npcs,
                           gen_calls, blocks>>
    /\ pc' = "evict"
    /\ UNCHANGED <<time, uids, clients, player, pos, stats, dying, respawning, jobs, log,
                   frontend_events, refused, denied, panicked, silent, force_update,
                   last_pos, view, can_build, block_change, edits, savevars>>

\* Mutant of should_drop: a chunk replaced in this tick is dropped as well.
should_drop_replaced(chunk_key) ==
    \/ chunk_key \in terrain_changes.modified_chunks
    \/ ~\E e \in Ents :
            /\ player[e] # None
            /\ pos[e] # None
            /\ player[e][1].view_distance # None
            /\ chunk_in_vd(pos[e], chunk_key, player[e][1].view_distance[1])

\* Mutant of should_drop: a chunk is kept only within the plain distance.
should_drop_tight(chunk_key) ==
    ~\E e \in Ents :
        /\ player[e] # None
        /\ pos[e] # None
        /\ player[e][1].view_distance # None
        /\ chunk_in_vd_tight(pos[e], chunk_key, player[e][1].view_distance[1])

\* "Remove chunks that are too far from players."
should_drop(chunk_key) ==
    ~\E e \in Ents :
        /\ player[e] # None
        /\ pos[e] # None
        /\ player[e][1].view_distance # None
        /\ chunk_in_vd(pos[e], chunk_key, player[e][1].view_distance[1])

RECURSIVE remove_chunks(_, _)
remove_chunks(t, chunks_to_remove) ==
    IF chunks_to_remove = {} THEN t
    ELSE LET key == CHOOSE k \in chunks_to_remove : TRUE
         IN  remove_chunks(remove_chunk(t, key), chunks_to_remove \ {key})

EvictChunks ==
    /\ pc = "evict"
    /\ LET chunks_to_remove == {k \in terrain : should_drop(k)}
           t == remove_chunks([terrain |-> terrain, terrain_changes |-> terrain_changes,
                               blocks |-> blocks],
                              chunks_to_remove)
       IN  /\ terrain' = t.terrain
           /\ terrain_changes' = t.terrain_changes
           /\ blocks' = t.blocks
    /\ sent' = NoSent
    /\ pc' = "sync"
    /\ UNCHANGED <<time, uids, clients, player, pos, stats, dying, respawning, npcs,
                   pending_chunks, jobs, chunk_rx, log, frontend_events, refused, denied,
                   gen_calls, consumed, panicked, silent, force_update, last_pos, view,
                   can_build, block_change, edits, savevars>>

(***************************************************************************)
(* Steps 6 and 7 of Server::tick.                                          *)
(***************************************************************************)
EcsSync == [type |-> "EcsSync"]
KillText(alias) == <<alias, " died">>
TerrainBlockUpdates(modified_blocks) ==
    [type |-> "TerrainBlockUpdates", blocks |-> modified_blocks]

\* "Handle deaths.": the chat message of every dying player.
RECURSIVE kill_msgs(_, _)
kill_msgs(s, e) ==
    IF e > MaxEnts THEN s
    ELSE kill_msgs(IF e \in s.dying /\ s.player[e] # None
                   THEN notify_registered(s, ServerChat(KillText(s.player[e][1].alias)))
                   ELSE s,
                   e + 1)

\* "Actually kill them"
RECURSIVE kill(_, _)
kill(s, e) ==
    IF e > MaxEnts THEN s
    ELSE kill(IF e \in s.dying
              THEN IF e \in DOMAIN s.clients
                   THEN force_state([s EXCEPT !.force_update = @ \cup {e}], e, "Dead")
                   ELSE [s EXCEPT !.player[e] = None, !.pos[e] = None, !.stats[e] = None,
                                  !.force_update = @ \ {e}, !.last_pos[e] = None,
                                  !.can_build = @ \ {e}]
              ELSE s,
              e + 1)

\* "Handle respawns"
RECURSIVE respawn(_, _)
respawn(s, e) ==
    IF e > MaxEnts THEN s
    ELSE respawn(IF e \in s.respawning /\ e \in DOMAIN s.clients
                 THEN LET s1 == allow_state(s, e, "Character")
                          s2 == IF s1.stats[e] # None
                                THEN [s1 EXCEPT !.stats[e][1].is_dead = FALSE]
                                ELSE s1
                      IN  [s2 EXCEPT !.force_update = @ \cup {e}]
                 ELSE s,
                 e + 1)

\* enum ClientState: the states of a session that is in the game.
InGame == {"Spectator", "Character", "Dead"}

\* Clients::notify_ingame_if: to every session in the game whose entity
\* satisfies f, the closure given as a map from entities to booleans.
notify_ingame_if(s, msg, f) ==
    [s EXCEPT !.sent = [c \in Ents |->
        IF c \in DOMAIN s.clients /\ s.clients[c].client_state \in InGame /\ f[c]
        THEN Append(@[c], msg) ELSE @[c]]]

\* Clients::notify_ingame_if_except
notify_ingame_if_except(s, except_entity, msg, f) ==
    [s EXCEPT !.sent = [c \in Ents |->
        IF /\ c \in DOMAIN s.clients
           /\ c # except_entity
           /\ s.clients[c].client_state \in InGame
           /\ f[c]
        THEN Append(@[c], msg) ELSE @[c]]]

\* The test of the closure in_vd of "Sync physics":
\* (pos.0 - client_pos.0).map2(TerrainChunkSize::SIZE, |d, sz|
\*     (d.abs() as u32 / sz).checked_sub(2).unwrap_or(0)).magnitude_squared()
\*     < client_vd.pow(2).
\* The height of a chunk exceeds every difference of heights, so that the
\* third coordinate adds nothing.
entity_in_vd(p, client_pos, client_vd) ==
    LET dx == checked_sub_2(Abs(p[1] - client_pos[1]) \div ChunkSize)
        dy == checked_sub_2(Abs(p[2] - client_pos[2]) \div ChunkSize)
    IN  dx * dx + dy * dy < client_vd * client_vd

\* The closure in_vd for an update of an entity at position p.
in_vd(s, p, entity) ==
    /\ s.pos[entity] # None
    /\ s.player[entity] # None
    /\ s.player[entity][1].view_distance # None
    /\ entity_in_vd(p, s.pos[entity], s.player[entity][1].view_distance[1])

\* Mutant of sync_pos: the flag ForceUpdate is not looked at.
sync_pos_unforced(s, e) ==
    IF s.pos[e] # None /\ s.last_pos[e] # Some(s.pos[e])
    THEN LET f == [c \in Ents |-> in_vd(s, s.pos[e], c)]
         IN  notify_ingame_if_except([s EXCEPT !.last_pos[e] = Some(s.pos[e])],
                                     e, EntityPos(e, s.pos[e]), f)
    ELSE s

\* Mutant of sync_pos: the position synced is not remembered.
sync_pos_forgetful(s, e) ==
    IF s.pos[e] # None /\ s.last_pos[e] # Some(s.pos[e])
    THEN LET f == [c \in Ents |-> in_vd(s, s.pos[e], c)]
             msg == EntityPos(e, s.pos[e])
         IN  IF e \in s.force_update
             THEN notify_ingame_if(s, msg, f)
             ELSE notify_ingame_if_except(s, e, msg, f)
    ELSE s

\* "Sync physics" for one entity with Uid and Pos: the block of Pos.  The
\* blocks of Vel, Ori and ActionState repeat it field by field.
sync_pos(s, e) ==
    IF s.pos[e] # None /\ s.last_pos[e] # Some(s.pos[e])
    THEN LET f == [c \in Ents |-> in_vd(s, s.pos[e], c)]
             msg == EntityPos(e, s.pos[e])
             s1 == [s EXCEPT !.last_pos[e] = Some(s.pos[e])]
         IN  IF e \in s.force_update
             THEN notify_ingame_if(s1, msg, f)
             ELSE notify_ingame_if_except(s1, e, msg, f)
    ELSE s

\* "Sync physics": the loop over the entities.
RECURSIVE sync_physics(_, _)
sync_physics(s, e) ==
    IF e > MaxEnts THEN s ELSE sync_physics(sync_pos(s, e), e + 1)

\* Server::sync_clients; "Remove all force flags." ends it.
sync_clients(s) ==
    LET s1 == respawn(kill(kill_msgs(notify_registered(s, EcsSync), 1), 1), 1)
        s2 == sync_physics(s1, 1)
    IN  [s2 EXCEPT !.force_update = {}]

\* "Sync changed chunks": the loop labelled 'chunk over modified_chunks in
\* the order given; it is left altogether when a chunk to send is missing.
RECURSIVE sync_chunks(_, _, _)
sync_chunks(s, order, i) ==
    IF i > Len(order) THEN s
    ELSE LET chunk_key == order[i]
             inview == {e \in Ents :
                          /\ s.player[e] # None
                          /\ s.pos[e] # None
                          /\ s.player[e][1].view_distance # None
                          /\ chunk_in_vd(s.pos[e], chunk_key, s.player[e][1].view_distance[1])}
         IN  IF inview # {} /\ chunk_key \notin s.terrain
             THEN s
             ELSE sync_chunks(
                    [s EXCEPT !.sent = [e \in Ents |->
                        IF e \in inview /\ e \in DOMAIN s.clients
                        THEN Append(@[e], TerrainChunkUpdate(chunk_key)) ELSE @[e]]],
                    order, i + 1)

\* Mutant of sync_blocks: a tick without changed blocks sends no batch.
sync_blocks_quiet(s) ==
    LET msg == TerrainBlockUpdates(s.terrain_changes.modified_blocks)
    IN  [s EXCEPT !.sent = [e \in Ents |->
            IF /\ s.player[e] # None
               /\ s.player[e][1].view_distance # None
               /\ e \in DOMAIN s.clients
               /\ \E p \in BlockPositions : s.terrain_changes.modified_blocks[p] # None
            THEN Append(@[e], msg) ELSE @[e]]]

\* "Sync changed blocks"
sync_blocks(s) ==
    LET msg == TerrainBlockUpdates(s.terrain_changes.modified_blocks)
    IN  [s EXCEPT !.sent = [e \in Ents |->
            IF /\ s.player[e] # None
               /\ s.player[e][1].view_distance # None
               /\ e \in DOMAIN s.clients
            THEN Append(@[e], msg) ELSE @[e]]]

\* Server::tick from sync_clients to its return.
SyncClients ==
    /\ pc = "sync"
    /\ \E order \in Orders(terrain_changes.modified_chunks) :
        LET s0 == [clients |-> clients, player |-> player, pos |-> pos, stats |-> stats,
                   dying |-> dying, respawning |-> respawning, terrain |-> terrain,
                   sent |-> NoSent, force_update |-> force_update, last_pos |-> last_pos,
                   can_build |-> can_build, terrain_changes |-> terrain_changes]
            s1 == sync_clients(s0)
            s2 == sync_chunks(s1, order, 1)
        IN  \E s3 \in {sync_blocks(s2)} :
            /\ clients' = s3.clients
            /\ player' = s3.player
            /\ pos' = s3.pos
            /\ stats' = s3.stats
            /\ sent' = s3.sent
            /\ force_update' = s3.force_update
            /\ last_pos' = s3.last_pos
            /\ can_build' = s3.can_build
    \* "Remove NPCs that are outside the view distances of all players"
    /\ npcs' = npcs \cap terrain
    \* "Cleanup"
    /\ dying' = {}
    /\ respawning' = {}
    /\ pc' = "cleanup"
    /\ UNCHANGED <<time, uids, terrain, terrain_changes, pending_chunks, jobs, chunk_rx,
                   log, frontend_events, refused, denied, gen_calls, consumed, panicked,
                   silent, view, block_change, blocks, edits, savevars>>

\* TerrainChanges::clear
terrain_changes_clear(tc) ==
    [tc EXCEPT !.new_chunks = {}, !.modified_chunks = {}, !.removed_chunks = {}]

\* Server::cleanup, called by the server loop after every tick.
Cleanup ==
    /\ pc = "cleanup"
    /\ terrain_changes' = terrain_changes_clear(terrain_changes)
    /\ sent' = NoSent
    /\ pc' = "connections"
    /\ UNCHANGED <<time, uids, clients, player, pos, stats, dying, respawning, npcs,
                   terrain, pending_chunks, jobs, chunk_rx, log, frontend_events, refused, denied,
                   gen_calls, consumed, panicked, silent, force_update, last_pos, view,
                   can_build, block_change, blocks, edits, savevars>>

(***************************************************************************)
(* The provider: Provider::set_chunk on the tick thread and the thread of  *)
(* Provider::init_save_loop.                                               *)
(***************************************************************************)
\* Provider::set_chunk up to `self.chunks.lock().unwrap()`; the snapshot
\* stored is a new one.
SetChunkLock ==
    /\ server = "running"
    /\ set_arg = None
    /\ version < MaxStores
    /\ mutex = "free"
    /\ \E p \in Keys :
        set_arg' = Some([pos |-> p, chunk |-> version + 1])
    /\ version' = version + 1
    /\ mutex' = "tick"
    /\ UNCHANGED <<tickvars, server, save_pc, wait_time, bufmap, rx, chunks, files,
                   stored, taken, flush, slept, rate, during, world_dir>>

\* Provider::set_chunk: `chunkmap.insert(pos, chunk)` and the release of the
\* guard.
SetChunkInsert ==
    /\ set_arg # None
    /\ chunks' = [chunks EXCEPT ![set_arg[1].pos] = Some(set_arg[1].chunk)]
    /\ during' = IF save_pc = "write" THEN during \cup {set_arg[1].pos}
                 ELSE during \ {set_arg[1].pos}
    /\ stored' = [stored EXCEPT ![set_arg[1].pos] = @ \cup {set_arg[1].chunk}]
    /\ mutex' = "free"
    /\ set_arg' = None
    /\ UNCHANGED <<tickvars, server, save_pc, wait_time, bufmap, rx, version, files,
                   taken, flush, slept, rate, world_dir>>

\* Provider::request_save_message: tx.send(msg).unwrap(), which panics the
\* caller when the thread and its receiver are gone.
RequestSaveMessage(Msgs) ==
    /\ server = "running"
    /\ ~panicked
    /\ Len(rx) < MaxSaveMsgs
    /\ \E msg \in Msgs :
        IF save_pc \in {"done", "panicked"}
        THEN panicked' = TRUE /\ rx' = rx
        ELSE panicked' = panicked /\ rx' = Append(rx, msg)
    /\ UNCHANGED <<pc, time, uids, clients, player, pos, stats, dying, respawning, npcs,
                   terrain, terrain_changes, pending_chunks, jobs, chunk_rx, sent, log,
                   frontend_events, refused, denied, gen_calls, consumed, silent,
                   force_update, last_pos, view, can_build, block_change, blocks, edits,
                   server, save_pc, wait_time, bufmap, chunks, mutex, set_arg, version,
                   files, stored, taken, flush, slept, rate, during, world_dir>>

\* The top of the loop 'yeet: the locals are made anew and the thread sleeps.
SaveSleep ==
    /\ save_pc = "sleep"
    /\ wait_time' = DefaultWait
    /\ bufmap' = NoChunks
    /\ slept' = Some(wait_time')
    /\ save_pc' = "recv"
    /\ UNCHANGED <<tickvars, server, rx, chunks, mutex, set_arg, version, files, stored, taken,
                   flush, rate, during, world_dir>>

\* `for msg in rx.try_recv()`: the Result yields one message or none.
SaveRecv ==
    /\ save_pc = "recv"
    /\ IF rx = <<>>
       THEN save_pc' = "lock" /\ UNCHANGED <<rx, wait_time, rate>>
       ELSE /\ rx' = Tail(rx)
            /\ IF Head(rx) = END
               THEN save_pc' = "done" /\ UNCHANGED <<wait_time, rate>>
               ELSE /\ wait_time' = Head(rx).x
                    /\ rate' = Some(Head(rx).x)
                    /\ save_pc' = "lock"
    /\ UNCHANGED <<tickvars, server, bufmap, chunks, mutex, set_arg, version, files,
                   stored, taken, flush, slept, during, world_dir>>

\* `let mut chunkmap = mutex.lock().unwrap();`
SaveLock ==
    /\ save_pc = "lock"
    /\ mutex = "free"
    /\ mutex' = "saver"
    /\ save_pc' = "swap"
    /\ UNCHANGED <<tickvars, server, wait_time, bufmap, rx, chunks, set_arg, version,
                   files, stored, taken, flush, slept, rate, during, world_dir>>

\* `std::mem::swap(&mut *chunkmap, &mut bufmap);` and the end of the block,
\* which releases the guard.
SaveSwap ==
    /\ save_pc = "swap"
    /\ chunks' = bufmap
    /\ bufmap' = chunks
    /\ taken' = stored
    /\ stored' = [k \in Keys |-> {}]
    /\ flush' = <<>>
    /\ during' = {}
    /\ mutex' = "free"
    /\ save_pc' = "write"
    /\ UNCHANGED <<tickvars, server, wait_time, rx, set_arg, version, files, slept, rate,
                   world_dir>>

\* One turn of `for (pos, chunk) in bufmap.drain()`, in the order of the hash
\* map: qser(t(pos), &chunk).unwrap().  Oks says whether File::create may
\* succeed or fail; the unwrap of a failure ends the thread and its locals.
SaveWrite(Oks) ==
    /\ save_pc = "write"
    /\ \E p \in {k \in Keys : bufmap[k] # None}, ok \in Oks :
        /\ flush' = Append(flush, [pos |-> p, chunk |-> bufmap[p][1], ok |-> ok])
        /\ IF ok
           THEN /\ files' = [files EXCEPT ![p] = bufmap[p]]
                /\ bufmap' = [bufmap EXCEPT ![p] = None]
                /\ save_pc' = save_pc
           ELSE /\ files' = files
                /\ bufmap' = NoChunks
                /\ save_pc' = "panicked"
    /\ UNCHANGED <<tickvars, server, wait_time, rx, chunks, mutex, set_arg, version,
                   stored, taken, slept, rate, during, world_dir>>

\* The drain is exhausted: the loop starts over.
SaveDrained ==
    /\ save_pc = "write"
    /\ bufmap = NoChunks
    /\ save_pc' = "sleep"
    /\ UNCHANGED <<tickvars, server, wait_time, bufmap, rx, chunks, mutex, set_arg,
                   version, files, stored, taken, flush, slept, rate, during, world_dir>>

\* Drop for Server up to the join: the sessions are told of the shutdown.
Drop ==
    /\ server = "running"
    /\ set_arg = None
    /\ sent' = notify_registered([clients |-> clients, sent |-> sent], Shutdown).sent
    /\ server' = "dropping"
    /\ UNCHANGED <<pc, time, uids, clients, player, pos, stats, dying, respawning, npcs,
                   terrain, terrain_changes, pending_chunks, jobs, chunk_rx, log,
                   frontend_events, refused, denied, gen_calls, consumed, panicked, silent,
                   force_update, last_pos, view, can_build, block_change, blocks, edits,
                   save_pc, wait_time, bufmap, rx, chunks, mutex, set_arg, version,
                   files, stored, taken, flush, slept, rate, during, world_dir>>

\* Drop for Server: `self.save_handle.take().unwrap().join()` returns when
\* the thread has ended.
Join ==
    /\ server = "dropping"
    /\ save_pc \in {"done", "panicked"}
    /\ server' = "down"
    /\ UNCHANGED <<tickvars, save_pc, wait_time, bufmap, rx, chunks, mutex, set_arg,
                   version, files, stored, taken, flush, slept, rate, during, world_dir>>

(***************************************************************************)
(* The world folder: qser, qdeser, Provider::new, save and load.  A folder *)
(* maps the names of the three global files to Option of their bytes; a    *)
(* world is the record of seed, chunks and locations of its WorldSim.      *)
(***************************************************************************)
GlobalFiles == {"chunks", "locations", "seed"}

\* Results: Ok(val), the Err of a std::io::Result and a panic of the thread.
Ok(x) == [kind |-> "ok", val |-> <<x>>]
Err == [kind |-> "err", val |-> <<>>]
Panic == [kind |-> "panic", val |-> <<>>]

\* bincode of a u32: four bytes, the lowest first.
u32_bytes(n) ==
    <<n % 256, (n \div 256) % 256, (n \div 65536) % 256, (n \div 16777216) % 256>>

bytes_u32(b) == b[1] + 256 * b[2] + 65536 * b[3] + 16777216 * b[4]

\* bincode of a Vec: the length as u64, eight bytes, then the elements.
RECURSIVE vec_bytes_from(_, _)
vec_bytes_from(v, i) ==
    IF i > Len(v) THEN <<>> ELSE u32_bytes(v[i]) \o vec_bytes_from(v, i + 1)

vec_bytes(v) == u32_bytes(Len(v)) \o <<0, 0, 0, 0>> \o vec_bytes_from(v, 1)

\* The Vec of the bytes b, or Panic where bincode reports an error that
\* qdeser unwraps.
bytes_vec(b) ==
    IF Len(b) < 8 THEN Panic
    ELSE LET n == bytes_u32(SubSeq(b, 1, 4))
         IN  IF SubSeq(b, 5, 8) # <<0, 0, 0, 0>> \/ Len(b) < 8 + 4 * n THEN Panic
             ELSE Ok([i \in 1..n |-> bytes_u32(SubSeq(b, 5 + 4 * i, 8 + 4 * i))])

\* qser: File::create(t)? and serialize_into; created says whether the file
\* can be created, bytes is the serialized object.
qser(folder, name, bytes, created) ==
    IF created THEN Ok([folder EXCEPT ![name] = Some(bytes)]) ELSE Err

\* qdeser of a u32: File::open(t)? and deserialize_from(r).unwrap()
qdeser_u32(folder, name) ==
    IF folder[name] = None THEN Err
    ELSE IF Len(folder[name][1]) < 4 THEN Panic
    ELSE Ok(bytes_u32(folder[name][1]))

\* qdeser of a Vec
qdeser_vec(folder, name) ==
    IF folder[name] = None THEN Err ELSE bytes_vec(folder[name][1])

\* sim::GenCtx::from_seed(&mut seed): the seed it leaves in the variable.
from_seed(seed) == seed

\* World::generate(seed): a fresh world at that seed.
generate(seed) == [seed |-> seed, chunks |-> <<seed % 256>>, locations |-> <<>>]

\* Mutant of load: the file seed is read last and its absence is unwrapped.
load_unwrapped(folder) ==
    LET chunks_ == qdeser_vec(folder, "chunks")
        locations == qdeser_vec(folder, "locations")
        seed == qdeser_u32(folder, "seed")
    IN  IF chunks_.kind # "ok" THEN chunks_
        ELSE IF locations.kind # "ok" THEN locations
        ELSE IF seed.kind # "ok" THEN Panic
        ELSE Ok([seed |-> from_seed(seed.val[1]), chunks |-> chunks_.val[1],
                 locations |-> locations.val[1]])

\* Mutant of load: the file locations is read for the chunks as well.
load_mixed(folder) ==
    LET chunks_ == qdeser_vec(folder, "locations")
        locations == qdeser_vec(folder, "locations")
        seed == qdeser_u32(folder, "seed")
    IN  IF chunks_.kind # "ok" THEN chunks_
        ELSE IF locations.kind # "ok" THEN locations
        ELSE IF seed.kind # "ok" THEN seed
        ELSE Ok([seed |-> from_seed(seed.val[1]), chunks |-> chunks_.val[1],
                 locations |-> locations.val[1]])

\* Provider::load: the three files in the order chunks, locations, seed,
\* each with `?`.
load(folder) ==
    LET chunks_ == qdeser_vec(folder, "chunks")
        locations == qdeser_vec(folder, "locations")
        seed == qdeser_u32(folder, "seed")
    IN  IF chunks_.kind # "ok" THEN chunks_
        ELSE IF locations.kind # "ok" THEN locations
        ELSE IF seed.kind # "ok" THEN seed
        ELSE Ok([seed |-> from_seed(seed.val[1]), chunks |-> chunks_.val[1],
                 locations |-> locations.val[1]])

\* Provider::save: chunks, locations, seed, each with `?`; Created are the
\* files that can be created.  The result is the folder left behind and
\* whether save returned Ok.
save(world, folder, Created) ==
    LET r1 == qser(folder, "chunks", vec_bytes(world.chunks), "chunks" \in Created)
        f1 == IF r1.kind = "ok" THEN r1.val[1] ELSE folder
        r2 == qser(f1, "locations", vec_bytes(world.locations), "locations" \in Created)
        f2 == IF r2.kind = "ok" THEN r2.val[1] ELSE f1
        r3 == qser(f2, "seed", u32_bytes(world.seed), "seed" \in Created)
    IN  IF r1.kind # "ok" THEN [folder |-> folder, ok |-> FALSE]
        ELSE IF r2.kind # "ok" THEN [folder |-> f1, ok |-> FALSE]
        ELSE IF r3.kind # "ok" THEN [folder |-> f2, ok |-> FALSE]
        ELSE [folder |-> r3.val[1], ok |-> TRUE]

\* Provider::new: the world of the folder, or after a failed load
\* create_dir_all of the folder, which is there, and World::generate(seed).
Provider_new(seed, folder) ==
    LET r == load(folder)
    IN  IF r.kind = "ok" THEN r
        ELSE IF r.kind = "err" THEN Ok(generate(seed))
        ELSE Panic

(***************************************************************************)
(* Specifications.                                                         *)
(***************************************************************************)
\* The session state machine: clients send the state machine's messages,
\* characters may die and respawn.
NextFsm ==
    \/ HandleNewConnections(FsmConns)
    \/ HandleNewMessages(FsmMsgs, FsmBatch, {})
    \/ StateTick({0}, Ents)
    \/ RecvChunk
    \/ EvictChunks
    \/ SyncClients
    \/ Cleanup

SpecFsm == Init /\ [][NextFsm]_vars

\* The session state machine with batches of several messages per tick.
NextBatch ==
    \/ HandleNewConnections(FsmConns)
    \/ HandleNewMessages(FsmMsgs, MaxBatch, {})
    \/ StateTick({0}, Ents)
    \/ RecvChunk
    \/ EvictChunks
    \/ SyncClients
    \/ Cleanup

SpecBatch == Init /\ [][NextBatch]_vars

\* Admission: more connections arrive than max_players admits, and every
\* session tries to register and to enter the world.
NextCap ==
    \/ HandleNewConnections(MaxEnts)
    \/ HandleNewMessages(CapMsgs, CapBatch, {})
    \/ StateTick({0}, {})
    \/ RecvChunk
    \/ EvictChunks
    \/ SyncClients
    \/ Cleanup

SpecCap == Init /\ [][NextCap]_vars

\* Physics sync: sessions register with a view distance, enter the world
\* and report positions near each other and far from each other.
SyncMsgs ==
    {Register(TRUE, TRUE, Some(vd)) : vd \in VDs}
        \cup {Character}
        \cup {PlayerPhysics(p) : p \in Positions}

NextSync ==
    \/ HandleNewConnections(MaxEnts)
    \/ HandleNewMessages(SyncMsgs, SyncBatch, {})
    \/ StateTick({0}, {})
    \/ RecvChunk
    \/ EvictChunks
    \/ SyncClients
    \/ Cleanup

SpecSync == Init /\ [][NextSync]_vars

\* The server loop of server-cli runs tick after tick without end.
SpecSyncFair == SpecSync /\ WF_vars(NextSync)

\* The in-view tests by themselves: the positions of a client and of an
\* entity, whose chunk is the chunk tested, and a view distance are drawn and
\* the three tests of the tick are applied to them.
ClientPositions ==
    {<<x * ChunkSize + o, y * ChunkSize>> : x \in 9..11, y \in 10..11, o \in {0, ChunkSize - 1}}

EntityPositions ==
    {<<x * ChunkSize + o, y * ChunkSize>> : x \in 6..20, y \in 8..14, o \in {0, ChunkSize - 1}}

InitView ==
    /\ InitWorld
    /\ world_dir = None
    /\ view \in {Some([client_pos |-> cp, entity_pos |-> ep, vd |-> vd, out |-> None]) :
                    cp \in ClientPositions, ep \in EntityPositions, vd \in 0..MaxVd}

\* The test of the result-consumption loop (generated), fn chunk_in_vd
\* (changed) and the closure in_vd of the physics sync (entity), applied to
\* the inputs drawn.
ApplyView ==
    /\ view # None
    /\ view[1].out = None
    /\ LET v == view[1]
           key == pos_key(v.entity_pos)
       IN  view' = Some([v EXCEPT !.out =
                Some([generated |-> near_view(v.client_pos, key, v.vd),
                      changed |-> chunk_in_vd(v.client_pos, key, v.vd),
                      entity |-> entity_in_vd(v.entity_pos, v.client_pos, v.vd)])])
    /\ UNCHANGED <<pc, time, uids, clients, player, pos, stats, dying, respawning, npcs,
                   terrain, terrain_changes, pending_chunks, jobs, chunk_rx, sent, log,
                   frontend_events, refused, denied, gen_calls, consumed, panicked,
                   silent, force_update, last_pos, can_build, block_change, blocks,
                   edits, savevars>>

NextView == ApplyView

SpecView == InitView /\ [][NextView]_vars

\* Several sessions at once, some of which send requests that are refused
\* or that end their session.
IsoMsgs ==
    {Register(TRUE, TRUE, None), Register(TRUE, FALSE, None), RequestState("Connected")}

NextIso ==
    \/ HandleNewConnections(MaxEnts)
    \/ HandleNewMessages(IsoMsgs, IsoBatch, {})
    \/ StateTick({0}, {})
    \/ RecvChunk
    \/ EvictChunks
    \/ SyncClients
    \/ Cleanup

SpecIso == Init /\ [][NextIso]_vars

\* Timeouts and transport failures: the clock advances, sessions fall
\* silent, postboxes break and the listener may fail.
NetMsgs == {Register(TRUE, TRUE, None), Character, Ping, Disconnect}

\* The durations dt of a tick, in seconds, of that run.
NetDts == {0, 10, 11}

NextNet ==
    \/ ListenerError
    \/ HandleNewConnections(NetConns)
    \/ HandleNewMessages(NetMsgs, NetBatch, Ents)
    \/ StateTick({dt \in NetDts : time + dt <= MaxTime}, {})
    \/ RecvChunk
    \/ EvictChunks
    \/ SyncClients
    \/ Cleanup

SpecNet == Init /\ [][NextNet]_vars

\* The terrain pipeline: clients enter the world, move and request chunks.
Next ==
    \/ HandleNewConnections(ChunkConns)
    \/ HandleNewMessages(ChunkMsgs, ChunkBatch, {})
    \/ StateTick({0}, {})
    \/ WorkerFinish
    \/ RecvChunk
    \/ EvictChunks
    \/ SyncClients
    \/ Cleanup

Spec == Init /\ [][Next]_vars

(***************************************************************************)
(* Properties of the generation pipeline, checked under Spec.              *)
(***************************************************************************)
\* The generation jobs of key k that run or whose result waits in the channel.
Outstanding(k) ==
    jobs[k] + Cardinality({i \in 1..Len(chunk_rx) : chunk_rx[i].key = k})

Max0(x) == IF x > 0 THEN x ELSE 0

\* "In view": max(0, |chunk_of(p) - k|.x - 2)^2 + max(0, |chunk_of(p) - k|.y - 2)^2 <= vd^2
\* for a session whose entity has a position and a view distance.
InView(e, k) ==
    /\ e \in DOMAIN clients
    /\ player[e] # None
    /\ pos[e] # None
    /\ player[e][1].view_distance # None
    /\ LET c == <<pos[e][1] \div ChunkSize, pos[e][2] \div ChunkSize>>
           dx == Max0(Abs(c[1] - k[1]) - 2)
           dy == Max0(Abs(c[2] - k[2]) - 2)
           vd == player[e][1].view_distance[1]
       IN  dx * dx + dy * dy <= vd * vd

\* The number of TerrainChunkUpdate messages for key k in a sequence of messages.
Updates(seq, k) == Cardinality({i \in 1..Len(seq) : seq[i] = TerrainChunkUpdate(k)})

\* C1: at most one generation job per chunk key is outstanding at any time,
\* its key is in pending_chunks for as long as it is outstanding, and a step
\* schedules a job for a key only if the key was not in pending_chunks, then
\* schedules one job and puts the key into pending_chunks.
C1_OneJobPerKey ==
    /\ [](\A k \in Keys : /\ Outstanding(k) <= 1
                          /\ Outstanding(k) = 1 => k \in pending_chunks)
    /\ [][\A k \in Keys : jobs'[k] > jobs[k] =>
            /\ k \notin pending_chunks
            /\ jobs'[k] = jobs[k] + 1
            /\ k \in pending_chunks']_vars

\* A key requested twice since its last consumption, with a single job whose
\* result waits in the channel.
C1_Witness ==
    \E k \in Keys :
        /\ gen_calls[k] >= 2
        /\ k \in pending_chunks
        /\ jobs[k] = 0
        /\ Outstanding(k) = 1

\* C2: the generate_chunk calls for a key made before its result is consumed
\* schedule one job in all: when the result is consumed no other job of the
\* key is outstanding; the consuming poll sends exactly one TerrainChunkUpdate
\* of the key to every client that has the key in view and none to the other
\* clients, and the rest of the tick sends no further update of the key.
C2_OneJobOneUpdate ==
    consumed # None =>
        LET k == consumed[1].key
        IN  /\ consumed[1].gen_calls >= 1
            /\ pc = "evict" =>
                /\ Outstanding(k) = 0
                /\ \A e \in Ents :
                    Updates(sent[e], k) = IF InView(e, k) THEN 1 ELSE 0
            /\ pc \in {"sync", "cleanup"} =>
                \A e \in Ents : Updates(sent[e], k) = 0

\* A result consumed after two or more requests of its key, sent to a client
\* that has the key at the edge of its view.
C2_Witness ==
    /\ pc = "evict"
    /\ consumed # None
    /\ consumed[1].gen_calls >= 2
    /\ consumed[1].key = EdgeKey
    /\ \E e \in Ents : InView(e, EdgeKey) /\ sent[e] = <<TerrainChunkUpdate(EdgeKey)>>

\* A result consumed while the only client does not have its key in view.
C2_WitnessOutOfView ==
    /\ pc = "evict"
    /\ consumed # None
    /\ \E e \in DOMAIN clients : pos[e] # None /\ ~InView(e, consumed[1].key)

GenerateChunk ==
    /\ pc = "connections"
    /\ \E key \in Keys :
        \E s1 \in {generate_chunk([gen_calls |-> gen_calls,
                                    pending_chunks |-> pending_chunks,
                                    jobs |-> jobs], key)} :
            /\ gen_calls' = s1.gen_calls
            /\ pending_chunks' = s1.pending_chunks
            /\ jobs' = s1.jobs
    /\ UNCHANGED <<pc, time, uids, clients, player, pos, stats, dying, respawning, npcs,
                   terrain, terrain_changes, chunk_rx, sent, log, frontend_events,
                   refused, denied, consumed, panicked, silent, force_update, last_pos,
                   view, can_build, block_change, blocks, edits, savevars>>

\* Generation by itself: clients enter the world where they are spawned,
\* request chunks and leave.
GenConns == 1

GenBatch == 1

GenMsgs ==
    {Register(TRUE, TRUE, Some(vd)) : vd \in VDs}
        \cup {Character, Disconnect}
        \cup {TerrainChunkRequest(k) : k \in Keys}

\* The steps of the tick thread of that run.
TickThread ==
    \/ HandleNewConnections(GenConns)
    \/ HandleNewMessages(GenMsgs, GenBatch, {})
    \/ StateTick({0}, {})
    \/ RecvChunk
    \/ EvictChunks
    \/ SyncClients
    \/ Cleanup

NextGen == TickThread \/ WorkerFinish

SpecGen == Init /\ [][NextGen]_vars

\* Generation asked for from outside the tick as well, so that a loaded
\* chunk is generated anew and replaced.
NextRegen == NextGen \/ GenerateChunk

SpecRegen == Init /\ [][NextRegen]_vars

\* The server loop runs tick after tick, and the thread pool runs every job
\* it was given to its end: the job of each key sends its result.
SpecGenFair ==
    /\ SpecGen
    /\ WF_vars(TickThread)
    /\ \A k \in Keys : WF_vars(WorkerFinish /\ jobs'[k] < jobs[k])

(***************************************************************************)
(* Properties of the session state machine, checked under SpecFsm.  They   *)
(* are read off the log of the last handle_new_messages, which holds one   *)
(* record per drained message.                                             *)
(***************************************************************************)
\* The positions of the log of entity e.
Drained(e) == 1..Len(log[e])

\* A reply that is one typed error naming the state the session was in.
TypedError(r) ==
    \E err \in Errors : r.reply = <<StateAnswerErr(err, r.from)>>

\* The session of e was marked for teardown by one of its drained messages.
TornDown(e) == \E j \in Drained(e) : log[e][j].teardown

\* The teardown of the session of e was carried out.
Removed(e) ==
    /\ e \notin DOMAIN clients
    /\ player[e] = None /\ pos[e] = None /\ stats[e] = None
    /\ ServerDisconnect \in Range(sent[e])
    /\ [type |-> "ClientDisconnected", entity |-> e] \in Range(frontend_events)

\* C4: RequestState(Spectator) moves a session from Registered, Character or
\* Dead to Spectator, is answered with Already from Spectator and with
\* Impossible from Connected, the state staying as it was.
C4_SpectatorRequest ==
    \A e \in Ents : \A i \in Drained(e) :
        LET r == log[e][i]
        IN  (r.handled /\ r.msg = RequestState("Spectator")) =>
                CASE r.from \in {"Registered", "Character", "Dead"} ->
                        r.to = "Spectator" /\ r.reply = <<StateAnswerOk("Spectator")>>
                  [] r.from = "Spectator" ->
                        r.to = "Spectator"
                            /\ r.reply = <<StateAnswerErr("Already", "Spectator")>>
                  [] r.from = "Connected" ->
                        r.to = "Connected"
                            /\ r.reply = <<StateAnswerErr("Impossible", "Connected")>>
                  [] OTHER -> TRUE

\* C5 as stated: RequestState(Connected) from a session in Connected is a
\* no-op: the session is not marked for teardown and stays in the registry.
C5_ConnectedNoOp ==
    \A e \in Ents : \A i \in Drained(e) :
        LET r == log[e][i]
        IN  (r.handled /\ r.msg = RequestState("Connected") /\ r.from = "Connected") =>
                /\ ~r.teardown
                /\ ~TornDown(e) => e \in DOMAIN clients

\* C5 amended: a handled RequestState(Connected) from a session in any state
\* is treated as Disconnect is: it gets no answer and leaves the state as it
\* is, and in the same tick the session is removed from the registry, is
\* sent Disconnect, its entity is deleted and ClientDisconnected is returned.
C5_RequestConnectedDisconnects ==
    \A e \in Ents : \A i \in Drained(e) :
        LET r == log[e][i]
        IN  (r.handled /\ r.msg = RequestState("Connected")) =>
                /\ r.reply = <<>>
                /\ r.to = r.from
                /\ \E j \in 1..i : log[e][j].teardown
                /\ Removed(e)

\* A session in Connected whose RequestState(Connected) was handled.
C5_Witness ==
    \E e \in Ents : \E i \in Drained(e) :
        /\ log[e][i].handled
        /\ log[e][i].msg = RequestState("Connected")
        /\ log[e][i].from = "Connected"
        /\ log[e][i].teardown
        /\ e \notin DOMAIN clients

\* The pairs of a state and a request of the state machine that are not an
\* allowed transition.
Disallowed(from, m) ==
    CASE m.type = "RequestState" ->
            CASE m.state = "Connected" -> from # "Connected"
              [] m.state = "Registered" -> from \in {"Connected", "Registered"}
              [] m.state = "Spectator" -> from \in {"Connected", "Spectator"}
              [] OTHER -> TRUE
      [] m.type = "Register" -> ~(from = "Connected" /\ m.valid /\ m.auth)
      [] m.type = "Character" -> from \in {"Connected", "Character"}
      [] m.type = "Controller" -> from \in {"Connected", "Registered", "Spectator"}
      [] OTHER -> FALSE

\* C7 as stated: every request that is not an allowed transition is
\* answered with one typed error, leaves the state as it is, does not panic
\* and leaves the session in the registry.
C7_Totality ==
    /\ ~panicked
    /\ \A e \in Ents : \A i \in Drained(e) :
        LET r == log[e][i]
        IN  (r.handled /\ Disallowed(r.from, r.msg)) =>
                /\ TypedError(r)
                /\ r.to = r.from
                /\ ~r.teardown

\* C7 amended: every handled request that is not an allowed transition is
\* answered with one typed error and leaves the state as it is, but for two
\* requests: RequestState(Connected) from a state other than Connected gets
\* no error and tears the session down, and RequestState(Pending) is ignored
\* without an answer.  Nothing panics, and a session none of whose messages
\* asked for a teardown is still in the registry.
C7_TotalityButConnected ==
    /\ ~panicked
    /\ \A e \in Ents :
        /\ (Drained(e) # {} /\ ~TornDown(e)) => e \in DOMAIN clients
        /\ \A i \in Drained(e) :
            LET r == log[e][i]
            IN  (r.handled /\ Disallowed(r.from, r.msg)) =>
                    CASE r.msg = RequestState("Connected") ->
                            r.reply = <<>> /\ r.to = r.from /\ TornDown(e) /\ Removed(e)
                      [] r.msg = RequestState("Pending") ->
                            r.reply = <<>> /\ r.to = r.from /\ ~r.teardown
                      [] OTHER ->
                            TypedError(r) /\ r.to = r.from /\ ~r.teardown

\* A session whose Register was answered with the typed error Denied, which
\* registered afterwards and now enters the world.
C7_Witness ==
    \E e \in denied \cap DOMAIN clients : \E i \in Drained(e) :
        /\ log[e][i].handled
        /\ log[e][i].msg = Character
        /\ ~Disallowed(log[e][i].from, log[e][i].msg)
        /\ log[e][i].from = "Registered"
        /\ log[e][i].to = "Character"
        /\ clients[e].client_state = "Character"

\* C8: a handled Register of a valid player from Connected moves the
\* session to Registered if the account query succeeds; if it fails the
\* answer is Denied, the state stays Connected and the session stays in the
\* registry.  This holds as well for a session that was denied before.
C8_Register ==
    \A e \in Ents : \A i \in Drained(e) :
        LET r == log[e][i]
        IN  (r.handled /\ r.msg.type = "Register" /\ r.msg.valid /\ r.from = "Connected") =>
                IF r.msg.auth
                THEN /\ r.to = "Registered"
                     /\ r.reply # <<>>
                     /\ r.reply[Len(r.reply)] = StateAnswerOk("Registered")
                     /\ r.entity_to.player = Some([alias |-> Alias,
                                                   view_distance |-> r.msg.view_distance])
                     /\ ~r.teardown
                ELSE /\ r.reply = <<StateAnswerErr("Denied", "Connected")>>
                     /\ r.to = "Connected"
                     /\ r.entity_to = r.entity_from
                     /\ ~r.teardown
                     /\ e \in denied
                     /\ ~TornDown(e) => (e \in DOMAIN clients
                                            /\ clients[e].client_state = "Connected")

\* A session that was denied in an earlier tick and now registers.
C8_Witness ==
    \E e \in denied : \E i \in Drained(e) :
        /\ log[e][i].handled
        /\ log[e][i].msg = Register(TRUE, TRUE, None)
        /\ log[e][i].from = "Connected"
        /\ log[e][i].to = "Registered"
        /\ \A j \in Drained(e) : log[e][j].msg # Register(TRUE, FALSE, None)

\* C9: a handled Character message from Registered, Spectator or Dead moves
\* the session to Character, puts its entity at SpawnPoint and queues the
\* chat message "[alias] is now online."; from Character it is answered
\* with Already and from Connected with Impossible, the state and the
\* entity staying as they were and no chat message being queued.
C9_EnterCharacter ==
    \A e \in Ents : \A i \in Drained(e) :
        LET r == log[e][i]
        IN  (r.handled /\ r.msg = Character) =>
                CASE r.from \in {"Registered", "Spectator", "Dead"} ->
                        /\ r.to = "Character"
                        /\ r.reply = <<StateAnswerOk("Character")>>
                        /\ r.entity_to.pos = SpawnPoint
                        /\ r.chat = <<[entity |-> None,
                                       msg |-> ServerChat(OnlineText(Alias))]>>
                  [] r.from = "Character" ->
                        /\ r.to = "Character"
                        /\ r.reply = <<StateAnswerErr("Already", "Character")>>
                        /\ r.entity_to = r.entity_from
                        /\ r.chat = <<>>
                  [] r.from = "Connected" ->
                        /\ r.to = "Connected"
                        /\ r.reply = <<StateAnswerErr("Impossible", "Connected")>>
                        /\ r.entity_to = r.entity_from
                        /\ r.chat = <<>>
                  [] OTHER -> FALSE

\* A dead character away from the spawn point that enters the world again.
C9_Witness ==
    \E e \in Ents : \E i \in Drained(e) :
        /\ log[e][i].handled
        /\ log[e][i].msg = Character
        /\ log[e][i].from = "Dead"
        /\ log[e][i].entity_from.pos = FarPoint
        /\ log[e][i].to = "Character"
        /\ log[e][i].entity_to.pos = SpawnPoint

\* C10, checked under SpecBatch: every drained Ping is answered with exactly
\* one Pong, whatever precedes it in the batch.
C10_PingPong ==
    \A e \in Ents : \A i \in Drained(e) :
        log[e][i].msg = Ping => log[e][i].reply = <<ServerPong>>

(***************************************************************************)
(* Admission at capacity, checked under SpecCap.                           *)
(***************************************************************************)
\* C6: a connection that arrived at capacity is sent TooManyPlayers and no
\* InitialSync, and its session does not reach Registered or Character.
C6_RefusedNotRegistered ==
    \A e \in refused :
        /\ (pc = "messages" /\ sent[e] # <<>>) => sent[e] = <<TooManyPlayers>>
        /\ e \in DOMAIN clients =>
                clients[e].client_state \notin {"Registered", "Character"}

(***************************************************************************)
(* Timeouts, teardown and failures of the transport.                       *)
(***************************************************************************)
\* The session of e was drained without a message while it was idle for
\* longer than the timeout.
TimedOut(e) == silent[e] # None /\ silent[e][1].idle > CLIENT_TIMEOUT

\* The session of e was drained without a message while its postbox
\* reported an error.
Broke(e) == silent[e] # None /\ silent[e][1].error

\* C11: a session that was silent for longer than CLIENT_TIMEOUT is
\* disconnected by the first drain that sees it so, without a Disconnect of
\* its own; a silent session whose idle time does not exceed the timeout and
\* whose transport reports no error stays, and so does a session whose
\* messages were drained without one that ends it.  No session is left
\* idle for longer than the timeout by a drain.
C11_Timeout ==
    pc = "step" =>
        /\ \A e \in Ents :
            /\ TimedOut(e) => log[e] = <<>> /\ Removed(e)
            /\ (silent[e] # None /\ ~TimedOut(e) /\ ~Broke(e)) => e \in DOMAIN clients
            /\ (log[e] # <<>> /\ ~TornDown(e)) =>
                    e \in DOMAIN clients /\ clients[e].last_ping = time
        /\ \A e \in DOMAIN clients : time - clients[e].last_ping <= CLIENT_TIMEOUT

\* A session is timed out that sent no Disconnect and whose transport is
\* sound, and another time a session idle for exactly the timeout stays.
C11_Witness ==
    /\ pc = "step"
    /\ \E e \in Ents : TimedOut(e) /\ ~Broke(e) /\ e \notin DOMAIN clients

\* A silent session that is idle for exactly the timeout stays.
C11_WitnessBoundary ==
    /\ pc = "step"
    /\ \E e \in DOMAIN clients :
        silent[e] # None /\ silent[e][1].idle = CLIENT_TIMEOUT /\ ~Broke(e)

\* C12: a session torn down by a Disconnect, by the timeout or by an error
\* of its transport has left the registry, its entity has lost its
\* components and a ClientDisconnected event for it is among the events of
\* the tick, all by the end of the drain; the rest of the tick keeps the
\* events.
C12_Teardown ==
    /\ [](pc = "step" =>
            \A e \in Ents : (TornDown(e) \/ TimedOut(e) \/ Broke(e)) => Removed(e))
    /\ [][(pc \in {"step", "recv", "evict", "sync"}) =>
            UNCHANGED <<frontend_events>>]_vars

\* Sessions with a character were torn down for each of the three causes.
C12_Witness ==
    /\ pc = "step"
    /\ \E e \in Ents : \E i \in Drained(e) :
        /\ log[e][i].msg = Disconnect /\ log[e][i].teardown
        /\ log[e][i].entity_from.pos # None
        /\ Removed(e)

C12_WitnessTimeout ==
    /\ pc = "step"
    /\ \E e \in Ents : TimedOut(e) /\ ~Broke(e) /\ Removed(e)

C12_WitnessError ==
    /\ pc = "step"
    /\ \E e \in Ents : Broke(e) /\ ~TimedOut(e) /\ Removed(e)

\* C14: when the listener reports an error at the start of a tick, the
\* tick ends with that error and has changed nothing: no connection
\* accepted, no message drained, no world step, no result consumed, no
\* chunk evicted, nothing sent.
C14_ListenerError ==
    [][pc' = "failed" =>
        /\ pc = "connections"
        /\ UNCHANGED <<time, uids, clients, player, pos, stats, dying, respawning,
                       npcs, terrain, terrain_changes, pending_chunks, jobs, chunk_rx,
                       sent, log, frontend_events, refused, denied, gen_calls,
                       consumed, panicked, silent, force_update, last_pos, view,
                   can_build, block_change, blocks, edits, savevars>>]_vars

\* A tick failed while a registered session was connected.
C14_Witness ==
    /\ pc = "failed"
    /\ \E e \in DOMAIN clients : clients[e].client_state # "Connected"

(***************************************************************************)
(* Isolation of the sessions.                                              *)
(***************************************************************************)
\* A handled request that is malformed or not allowed in the state of its
\* session.
Offends(r) == r.handled /\ Disallowed(r.from, r.msg)

\* What the drain of the messages msgs does to the session of b when b is
\* the only session that has messages.
Solo(b, msgs) ==
    drain_client([time |-> time, clients |-> clients, player |-> player, pos |-> pos,
                  stats |-> stats, dying |-> dying, respawning |-> respawning,
                  terrain |-> terrain, sent |-> NoSent, log |-> NoSent,
                  new_chat_msgs |-> <<>>, disconnected_clients |-> <<>>,
                  requested_chunks |-> <<>>, disconnect |-> FALSE, stop |-> FALSE,
                  silent |-> [e \in Ents |-> None],
                  frontend_events |-> frontend_events, panicked |-> panicked,
                  pending_chunks |-> pending_chunks, jobs |-> jobs,
                  gen_calls |-> gen_calls, force_update |-> force_update,
                  last_pos |-> last_pos, can_build |-> can_build,
                  block_change |-> block_change, modified_blocks |-> <<>>],
                 b, msgs, FALSE)

\* The state machine's view of a record of the log.
Fsm(r) == [msg |-> r.msg, handled |-> r.handled, from |-> r.from, to |-> r.to,
           teardown |-> r.teardown]

\* C13: when a request of session a is malformed or not allowed, the drain
\* treats every other session b as if b were alone: each message of b is
\* drained and takes b through the states it would take b through without
\* a, b stays in the registry unless its own messages end it, a session
\* without messages keeps its state, and the tick goes on without panic.
C13_Isolation ==
    [][pc = "messages" =>
        \A a \in DOMAIN clients :
            (\E i \in 1..Len(log'[a]) : Offends(log'[a][i])) =>
                /\ pc' = "step"
                /\ ~panicked'
                /\ \A b \in DOMAIN clients \ {a} :
                    LET msgs == [i \in 1..Len(log'[b]) |-> log'[b][i].msg]
                        solo == Solo(b, msgs)
                    IN  /\ (b \in DOMAIN clients') = (b \in DOMAIN solo.clients)
                        /\ b \in DOMAIN clients' =>
                              clients'[b].client_state = solo.clients[b].client_state
                        /\ [i \in 1..Len(log'[b]) |-> Fsm(log'[b][i])]
                              = [i \in 1..Len(msgs) |-> Fsm(solo.log[b][i])]
                        /\ msgs = <<>> =>
                              /\ b \in DOMAIN clients'
                              /\ clients'[b] = clients[b]]_vars

\* One session was refused a request that cost it the session, another was
\* registered by the same drain.
C13_Witness ==
    /\ pc = "step"
    /\ \E a \in Ents : \E b \in DOMAIN clients \ {a} :
        /\ \E i \in Drained(a) : Offends(log[a][i]) /\ log[a][i].teardown
        /\ a \notin DOMAIN clients
        /\ \E i \in Drained(b) :
            /\ log[b][i].handled
            /\ log[b][i].from = "Connected" /\ log[b][i].to = "Registered"

(***************************************************************************)
(* Interest management.                                                    *)
(***************************************************************************)
\* The in-view formula for a client in chunk c, a chunk key k and a view
\* distance vd.
Formula(c, k, vd) ==
    Max0(Abs(c[1] - k[1]) - 2) * Max0(Abs(c[1] - k[1]) - 2)
        + Max0(Abs(c[2] - k[2]) - 2) * Max0(Abs(c[2] - k[2]) - 2) <= vd * vd

\* C15: the test that decides the push of a generated chunk and the test
\* chunk_in_vd of eviction and of the push of changed chunks both equal
\* max(0,|c.x-k.x|-2)^2 + max(0,|c.y-k.y|-2)^2 <= vd^2 for the chunk c of the
\* client; with c = (10,10) and vd = 2 the key (13,10) is in view and the
\* key (20,10) is not; the two tests agree.
C15_ChunkInView ==
    (view # None /\ view[1].out # None) =>
        LET v == view[1]
            c == pos_key(v.client_pos)
            k == pos_key(v.entity_pos)
            out == v.out[1]
        IN  /\ out.generated = Formula(c, k, v.vd)
            /\ out.changed = Formula(c, k, v.vd)
            /\ out.generated = out.changed
            /\ (c = <<10, 10>> /\ v.vd = 2 /\ k = <<13, 10>>) => out.generated /\ out.changed
            /\ (c = <<10, 10>> /\ v.vd = 2 /\ k = <<20, 10>>) => ~out.generated /\ ~out.changed

\* The tests were applied to the client chunk (10,10), view distance 2 and
\* key (13,10).
C15_Witness ==
    /\ view # None
    /\ view[1].out # None
    /\ pos_key(view[1].client_pos) = <<10, 10>>
    /\ pos_key(view[1].entity_pos) = <<13, 10>>
    /\ view[1].vd = 2
    /\ view[1].out[1].changed

\* C16: an entity update is in view of a client exactly when the chunk of
\* the entity is in view of the client under the chunk test.
C16_EntityTestIsChunkTest ==
    (view # None /\ view[1].out # None) =>
        view[1].out[1].entity = view[1].out[1].changed

\* The entity holds a ForceUpdate component when its physics are synced:
\* it held one before sync_clients or is killed or respawned by it.
Forced(e) ==
    \/ e \in force_update
    \/ e \in DOMAIN clients /\ e \in dying \cup respawning

\* The messages EntityPos about e among msgs.
PosUpdates(msgs, e) ==
    {i \in 1..Len(msgs) : msgs[i].type = "EntityPos" /\ msgs[i].entity = e}

\* After sync_clients, client c is in the game and has the position p in
\* view by the test of the physics sync.
Watches(c, p) ==
    /\ c \in DOMAIN clients'
    /\ clients'[c].client_state \in InGame
    /\ pos'[c] # None
    /\ player'[c] # None
    /\ player'[c][1].view_distance # None
    /\ LET vd == player'[c][1].view_distance[1]
           dx == Max0(Abs(p[1] - pos'[c][1]) \div ChunkSize - 2)
           dy == Max0(Abs(p[2] - pos'[c][2]) \div ChunkSize - 2)
       IN  dx * dx + dy * dy < vd * vd

\* C17: the physics sync sends the position of an entity to the client
\* that owns the entity only if the entity holds ForceUpdate; a changed
\* position goes to every other client in the game that has it in view,
\* and with ForceUpdate to the owner as well if the owner is in the game
\* and has it in view; it goes to nobody else.
C17_OwnerOnlyForced ==
    [][pc = "sync" =>
        \A e \in Ents : \A c \in Ents :
            LET got == PosUpdates(sent'[c], e) # {}
                changed == pos'[e] # None /\ last_pos[e] # Some(pos'[e])
            IN  /\ (got /\ c = e) => Forced(e)
                /\ got => changed /\ Watches(c, pos'[e])
                /\ (changed /\ Watches(c, pos'[e]) /\ (c # e \/ Forced(e))) => got]_vars

\* A character entered the world: its position went to itself and to the
\* other character, which has taken no force update.
C17_Witness ==
    /\ pc = "cleanup"
    /\ \E e \in Ents : \E c \in Ents \ {e} :
        /\ PosUpdates(sent[e], e) # {}
        /\ PosUpdates(sent[c], e) # {}

\* A character moved: its position went to the other character and not to
\* itself.
C17_WitnessUnforced ==
    /\ pc = "cleanup"
    /\ \E e \in Ents : \E c \in Ents \ {e} :
        /\ PosUpdates(sent[e], e) = {}
        /\ PosUpdates(sent[c], e) # {}
        /\ \E i \in PosUpdates(sent[c], e) : sent[c][i].pos = FarPoint

C19_WitnessTwoWrites ==
    /\ pc = "step"
    /\ \E e \in Ents :
        /\ Len(log[e]) = 2
        /\ log[e][1].msg = PlayerPhysics(SpawnPoint) /\ log[e][1].from = "Character"
        /\ log[e][2].msg = PlayerPhysics(FarPoint)
        /\ pos[e] = FarPoint
        /\ \E c \in DOMAIN clients \ {e} :
            clients[c].client_state = "Character" /\ pos[c] = FarPoint

\* Client c is in the game and has entity e, which stands at p, in view.
Stable(c, e, p) ==
    /\ pos[e] = p
    /\ c \in DOMAIN clients
    /\ clients[c].client_state \in InGame
    /\ pos[c] # None
    /\ player[c] # None
    /\ player[c][1].view_distance # None
    /\ entity_in_vd(p, pos[c], player[c][1].view_distance[1])

\* C18: if from some tick on entity e stays at p and client c stays in the
\* game with e in view, then at some time, before or after, c is sent an
\* EntityPos of e that carries p.
C18_EventuallyConsistent ==
    \A c \in Ents : \A e \in Ents \ {c} : \A p \in Positions :
        <>[]Stable(c, e, p) => <>(\E i \in 1..Len(sent[c]) : sent[c][i] = EntityPos(e, p))

(***************************************************************************)
(* Block edits: clients toggle build mode with "/build" and place and      *)
(* break the block at the spawn point while its chunk comes and goes.      *)
(***************************************************************************)
BuildMsgs ==
    {Register(TRUE, TRUE, Some(vd)) : vd \in VDs}
        \cup {Register(TRUE, TRUE, None), Character, BuildCmd}
        \cup {PlaceBlock(p, Stone) : p \in BlockPositions}
        \cup {BreakBlock(p) : p \in BlockPositions}
        \cup {TerrainChunkRequest(pos_key(p)) : p \in BlockPositions}

NextBuild ==
    \/ HandleNewConnections(ChunkConns)
    \/ HandleNewMessages(BuildMsgs, BuildBatch, {})
    \/ StateTick({0}, {})
    \/ WorkerFinish
    \/ RecvChunk
    \/ EvictChunks
    \/ SyncClients
    \/ Cleanup

SpecBuild == Init /\ [][NextBuild]_vars

\* The edits of this tick that name the position p, in the order accepted.
EditsAt(p) == SelectSeq(edits, LAMBDA ed : ed[1] = p)

\* The block of the last edit of this tick at p.
LaterEdit(p) == EditsAt(p)[Len(EditsAt(p))][2]

\* C20, first half: after the world step, a position edited twice in the
\* tick has the one entry of modified_blocks, holding the later edit's block.
C20_Coalesced ==
    pc = "recv" =>
        \A p \in BlockPositions :
            Len(EditsAt(p)) >= 2 => terrain_changes.modified_blocks[p] = Some(LaterEdit(p))

\* C20: two block edits to the same position accepted within one tick
\* produce exactly one entry for that position in that tick's
\* modified_blocks, holding the later edit's block, and after the world step
\* the terrain holds that later block at the position.
C20_LaterEditWins ==
    pc = "recv" =>
        \A p \in BlockPositions :
            Len(EditsAt(p)) >= 2 =>
                /\ terrain_changes.modified_blocks[p] = Some(LaterEdit(p))
                /\ blocks[p] = Some(LaterEdit(p))

\* Two edits of one tick with different blocks were applied to a loaded chunk.
C20_WitnessLoaded ==
    /\ pc = "recv"
    /\ \E p \in BlockPositions :
        /\ Len(EditsAt(p)) >= 2
        /\ EditsAt(p)[1][2] # LaterEdit(p)
        /\ blocks[p] = Some(LaterEdit(p))

\* Two edits of one tick named a position whose chunk is not loaded.
C20_WitnessUnloaded ==
    /\ pc = "recv"
    /\ \E p \in BlockPositions :
        /\ Len(EditsAt(p)) >= 2
        /\ pos_key(p) \notin terrain
        /\ blocks[p] = None

\* The batches of changed blocks among the messages msgs.
BlockBatches(msgs) == SelectSeq(msgs, LAMBDA m : m.type = "TerrainBlockUpdates")

\* The session e has a player with a view distance.
InWorld(e) ==
    e \in DOMAIN clients /\ player[e] # None /\ player[e][1].view_distance # None

\* C21: in every tick each session whose player has a view distance is sent
\* exactly one TerrainBlockUpdates, which holds for every position edited in
\* the tick its latest block and nothing else, however many edits were made;
\* every other session is sent none.
C21_OneBatchPerTick ==
    pc = "cleanup" =>
        \A e \in Ents :
            IF InWorld(e)
            THEN /\ Len(BlockBatches(sent[e])) = 1
                 /\ \A p \in BlockPositions :
                        BlockBatches(sent[e])[1].blocks[p] =
                            IF EditsAt(p) = <<>> THEN None ELSE Some(LaterEdit(p))
            ELSE BlockBatches(sent[e]) = <<>>

\* A session in the world got the batch of a tick with two edits.
C21_Witness ==
    /\ pc = "cleanup"
    /\ Len(edits) >= 2
    /\ \E e \in Ents : InWorld(e) /\ Len(BlockBatches(sent[e])) = 1

\* A session with a player without view distance got no batch of a tick
\* with an edit.
C21_WitnessNotInWorld ==
    /\ pc = "cleanup"
    /\ edits # <<>>
    /\ \E e \in DOMAIN clients :
        player[e] # None /\ ~InWorld(e) /\ BlockBatches(sent[e]) = <<>>

\* C22, the parts cleared: after Server::cleanup no entity carries the flag
\* ForceUpdate and the sets of new, modified and removed chunks are empty.
C22_FlagsAndChunksCleared ==
    pc = "connections" =>
        /\ force_update = {}
        /\ terrain_changes.new_chunks = {}
        /\ terrain_changes.modified_chunks = {}
        /\ terrain_changes.removed_chunks = {}

\* C22: after a complete tick (Server::tick, then Server::cleanup) no entity
\* carries a force-update flag and the terrain changes are empty in all four
\* parts: new_chunks, modified_chunks, removed_chunks and modified_blocks.
C22_TransientsCleared ==
    pc = "connections" =>
        /\ force_update = {}
        /\ terrain_changes.new_chunks = {}
        /\ terrain_changes.modified_chunks = {}
        /\ terrain_changes.removed_chunks = {}
        /\ \A p \in BlockPositions : terrain_changes.modified_blocks[p] = None

\* A tick with an edit has been cleaned up and its entry of modified_blocks
\* is still there.
C22_Witness ==
    /\ pc = "connections"
    /\ edits # <<>>
    /\ \E p \in BlockPositions : terrain_changes.modified_blocks[p] # None

(***************************************************************************)
(* The save loop: the tick thread stores snapshots, control messages       *)
(* arrive, writes succeed or fail, and the server is dropped.              *)
(***************************************************************************)
\* The x of the RATE messages sent.
Rates == {500}

SaveMsgs == {END} \cup {RATE(x) : x \in Rates}

NextSave ==
    \/ SetChunkLock
    \/ SetChunkInsert
    \/ RequestSaveMessage(SaveMsgs)
    \/ SaveSleep
    \/ SaveRecv
    \/ SaveLock
    \/ SaveSwap
    \/ SaveWrite(BOOLEAN)
    \/ SaveDrained
    \/ Drop
    \/ Join

SpecSave == Init /\ [][NextSave]_vars

\* The steps of the thread of the save loop.
SaveThread ==
    SaveSleep \/ SaveRecv \/ SaveLock \/ SaveSwap \/ SaveWrite(BOOLEAN) \/ SaveDrained

\* The operating system schedules the save thread and the dropping thread.
SpecSaveFair == SpecSave /\ WF_vars(SaveThread) /\ WF_vars(Join)

\* The tick thread, too, is scheduled: a set_chunk that holds the mutex
\* inserts its snapshot and lets the mutex go.
SpecSaveBothFair == SpecSaveFair /\ WF_vars(SetChunkInsert)

\* The save loop on a disk that takes every write.
NextSaveSound ==
    \/ SetChunkLock
    \/ SetChunkInsert
    \/ RequestSaveMessage(SaveMsgs)
    \/ SaveSleep
    \/ SaveRecv
    \/ SaveLock
    \/ SaveSwap
    \/ SaveWrite({TRUE})
    \/ SaveDrained
    \/ Drop
    \/ Join

SpecSaveSound == Init /\ [][NextSaveSound]_vars

SpecSaveSoundFair ==
    /\ SpecSaveSound
    /\ WF_vars(SaveSleep \/ SaveRecv \/ SaveLock \/ SaveSwap \/ SaveWrite({TRUE}) \/ SaveDrained)
    /\ WF_vars(SetChunkInsert)

\* The latest of the snapshots S: snapshots are numbered as they are made.
Later(S) == CHOOSE v \in S : \A w \in S : w <= v

\* The writes of the running flush that name the key k.
WritesOf(k) == SelectSeq(flush, LAMBDA w : w.pos = k)

\* C23, the coalescing: the buffer holds for every key stored since the last
\* swap one entry, the latest snapshot; no flush writes a key twice or writes
\* another snapshot than the latest it took; a flush that has run to its end
\* has written every key it took once.
C23_Coalesced ==
    \A k \in Keys :
        /\ chunks[k] = IF stored[k] = {} THEN None ELSE Some(Later(stored[k]))
        /\ Len(WritesOf(k)) <= 1
        /\ \A i \in 1..Len(WritesOf(k)) :
                taken[k] # {} /\ WritesOf(k)[i].chunk = Later(taken[k])
        /\ (save_pc \in {"sleep", "recv", "lock", "swap", "done"} /\ taken[k] # {})
            => Len(WritesOf(k)) = 1

\* The flush after the last swap is over: the thread is out of the drain.
FlushOver == save_pc \in {"sleep", "recv", "lock", "swap", "done", "panicked"}

\* C23: a key stored twice before the next swap of the save thread has one
\* entry in the buffer, the later snapshot, and the flush that follows
\* performs exactly one write for the key, with the later snapshot, under
\* every interleaving of stores and swaps.
C23_OneWritePerKey ==
    \A k \in Keys :
        /\ Cardinality(stored[k]) >= 2 => chunks[k] = Some(Later(stored[k]))
        /\ (FlushOver /\ Cardinality(taken[k]) >= 2) =>
                /\ Len(WritesOf(k)) = 1
                /\ WritesOf(k)[1].chunk = Later(taken[k])

\* A key was stored twice before a swap and the flush after it has written
\* the later snapshot and run to its end.
C23_WitnessFlushed ==
    /\ save_pc = "sleep"
    /\ \E k \in Keys :
        /\ Cardinality(taken[k]) >= 2
        /\ Len(WritesOf(k)) = 1
        /\ files[k] = Some(Later(taken[k]))


\* C24, the locking: the save thread holds the mutex only for the swap, with
\* an empty bufmap, and never in the drain, so that set_chunk can take the
\* mutex while chunks are written; a snapshot stored while the thread writes
\* is in the fresh buffer.
C24_MutexOnlyForSwap ==
    /\ mutex = "saver" => (save_pc = "swap" /\ bufmap = NoChunks)
    /\ save_pc = "write" => mutex # "saver"
    /\ \A k \in during : chunks[k] # None /\ chunks[k][1] \in stored[k]

\* C24: the save thread holds the mutex only for the swap with an empty
\* buffer and never while a chunk is written, so that a store never waits
\* for the disk, and no snapshot stored during a flush is lost: it is in the
\* fresh buffer and a later cycle writes it, so that none is left in the
\* buffer when the thread has ended.
C24_NothingLost ==
    /\ mutex = "saver" => (save_pc = "swap" /\ bufmap = NoChunks)
    /\ save_pc = "write" => mutex # "saver"
    /\ \A k \in during : chunks[k] # None /\ chunks[k][1] \in stored[k]
    /\ save_pc \in {"done", "panicked"} => during = {}

\* A snapshot was stored while the thread was writing another one.
C24_WitnessStoredInFlush ==
    /\ save_pc = "write"
    /\ flush # <<>>
    /\ during # {}

\* C25: dropping the server ends: the join on the thread of the save loop
\* returns.
C25_ShutdownTerminates == (server = "dropping") ~> (server = "down")

\* C25, the message: when the server is dropped the message END is in the
\* channel of the save loop.
C25_DropSendsEnd ==
    [][Drop => \E i \in 1..Len(rx') : rx'[i] = END]_vars

\* The join returned because the thread had been sent END by
\* request_save_message.
C25_WitnessJoined == server = "down" /\ save_pc = "done"

\* C26: a failed write does not end the save loop: after it the thread is
\* still running.
C26_WriteFailureSurvived ==
    (\E i \in 1..Len(flush) : ~flush[i].ok) => save_pc # "panicked"

\* C27: after the thread has processed RATE(x), every later cycle sleeps x
\* before it flushes, until another RATE is processed.
C27_RateSetsWait ==
    (save_pc = "recv" /\ rate # None) => slept = rate

\* The thread has processed a RATE and slept again.
C27_WitnessSleptAfterRate == save_pc = "recv" /\ rate # None /\ slept = Some(DefaultWait)

(***************************************************************************)
(* The world folder: Provider::new on folders with files missing, and      *)
(* save followed by load and save.                                         *)
(***************************************************************************)
\* Seeds of worlds: one byte, two bytes, three bytes wide.
Seeds == {7, 1337, 70000}

\* The indexes of chunks and of locations.
Indexes == {<<>>, <<3, 300>>}

Worlds == {[seed |-> s, chunks |-> c, locations |-> l] :
            s \in Seeds, c \in Indexes, l \in Indexes}

\* The folder a successful save of the world w left, without the files of
\* Missing.
FolderOf(w, Missing) ==
    [n \in GlobalFiles |->
        IF n \in Missing THEN None
        ELSE IF n = "seed" THEN Some(u32_bytes(w.seed))
        ELSE IF n = "chunks" THEN Some(vec_bytes(w.chunks))
        ELSE Some(vec_bytes(w.locations))]

Folders == {FolderOf(w, Missing) : w \in Worlds, Missing \in SUBSET GlobalFiles}

InitFolder ==
    /\ InitWorld
    /\ view = None
    /\ world_dir \in {Some([world |-> w, folder |-> f, seed |-> s, out |-> None]) :
                        w \in Worlds, f \in Folders, s \in {1337}}

\* Provider::new(seed, target) on the folder.
ProviderNew ==
    /\ world_dir # None
    /\ world_dir[1].out = None
    /\ world_dir' = Some([world_dir[1] EXCEPT !.out =
            Some([op |-> "new", new |-> Provider_new(world_dir[1].seed, world_dir[1].folder)])])
    /\ UNCHANGED <<tickvars, server, save_pc, wait_time, bufmap, rx, chunks, mutex, set_arg,
                   version, files, stored, taken, flush, slept, rate, during>>

\* Provider::save of the world into the folder, Provider::load of the
\* folder and Provider::save of the loaded world.
ProviderSaveLoad ==
    /\ world_dir # None
    /\ world_dir[1].out = None
    /\ \E Created \in SUBSET GlobalFiles :
        LET saved == save(world_dir[1].world, world_dir[1].folder, Created)
            loaded == load(saved.folder)
            again == IF loaded.kind = "ok"
                     THEN Some(save(loaded.val[1], saved.folder, GlobalFiles))
                     ELSE None
        IN  world_dir' = Some([world_dir[1] EXCEPT !.out =
                Some([op |-> "save", saved |-> saved, loaded |-> loaded, again |-> again])])
    /\ UNCHANGED <<tickvars, server, save_pc, wait_time, bufmap, rx, chunks, mutex, set_arg,
                   version, files, stored, taken, flush, slept, rate, during>>

NextFolder == ProviderNew \/ ProviderSaveLoad

SpecFolder == InitFolder /\ [][NextFolder]_vars

\* The global files the folder lacks.
MissingOf(folder) == {n \in GlobalFiles : folder[n] = None}

\* C28: Provider::new on a folder that lacks one or more of the files seed,
\* chunks and locations does not fail or panic: it returns a fresh world
\* generated from the configured seed, for every set of missing files.
C28_MissingFilesFallBack ==
    (world_dir # None /\ world_dir[1].out # None /\ world_dir[1].out[1].op = "new"
        /\ MissingOf(world_dir[1].folder) # {})
    => world_dir[1].out[1].new = Ok(generate(world_dir[1].seed))

\* Provider::new ran on a folder that holds the chunks and the locations of
\* a world of another seed and lacks the file seed.
C28_Witness ==
    /\ world_dir # None
    /\ world_dir[1].out # None
    /\ world_dir[1].out[1].op = "new"
    /\ MissingOf(world_dir[1].folder) = {"seed"}
    /\ world_dir[1].out[1].new = Ok(generate(world_dir[1].seed))

\* Provider::new ran on a folder with the three files and loaded its world.
C28_WitnessLoaded ==
    /\ world_dir # None
    /\ world_dir[1].out # None
    /\ world_dir[1].out[1].op = "new"
    /\ MissingOf(world_dir[1].folder) = {}
    /\ world_dir[1].out[1].new.kind = "ok"
    /\ world_dir[1].out[1].new.val[1].seed # world_dir[1].seed

C30_OneResultPerTick ==
    [][IF pc = "recv" /\ pc' = "evict"
       THEN IF chunk_rx = <<>>
            THEN UNCHANGED <<chunk_rx, terrain, pending_chunks>>
            ELSE /\ chunk_rx' = Tail(chunk_rx)
                 /\ terrain' = terrain \cup {Head(chunk_rx).key}
                 /\ pending_chunks' = pending_chunks \ {Head(chunk_rx).key}
       ELSE /\ Len(chunk_rx') >= Len(chunk_rx)
            /\ SubSeq(chunk_rx', 1, Len(chunk_rx)) = chunk_rx]_vars

\* The poll consumed a result while another one stayed in the channel.
C30_Witness ==
    /\ pc = "evict"
    /\ consumed # None
    /\ chunk_rx # <<>>
    /\ consumed[1].key \in terrain
    /\ consumed[1].key \notin pending_chunks

(***************************************************************************)
(* Keep-alive pings of the server.                                         *)
(***************************************************************************)
\* The server sent a Ping to the session of e in the drain of this tick.
Pinged(e) == \E i \in 1..Len(sent[e]) : sent[e][i] = ServerPing

\* The session of e was drained without a message, with a sound transport,
\* while idle for more than half the timeout and for no more than the timeout.
Nearing(e) ==
    /\ silent[e] # None /\ ~Broke(e)
    /\ 2 * silent[e][1].idle > CLIENT_TIMEOUT
    /\ silent[e][1].idle <= CLIENT_TIMEOUT

\* C31: the drain sends a server Ping to a session that was silent, with a
\* sound transport, for more than half the timeout and at most the timeout;
\* it sends none to a silent session idle for at most half the timeout, none
\* to a session whose messages it drained in this tick, and none to a
\* session it timed out.
C31_PingWhenNearing ==
    pc = "step" =>
        \A e \in Ents :
            /\ Nearing(e) => Pinged(e) /\ e \in DOMAIN clients
            /\ (silent[e] # None /\ 2 * silent[e][1].idle <= CLIENT_TIMEOUT) => ~Pinged(e)
            /\ log[e] # <<>> => ~Pinged(e)
            /\ TimedOut(e) => ~Pinged(e)

\* A silent session idle for more than half the timeout was pinged and stays.
C31_Witness ==
    /\ pc = "step"
    /\ \E e \in DOMAIN clients : Nearing(e) /\ Pinged(e)

\* A silent session idle for exactly half the timeout was not pinged.
C31_WitnessHalf ==
    /\ pc = "step"
    /\ \E e \in DOMAIN clients :
        silent[e] # None /\ 2 * silent[e][1].idle = CLIENT_TIMEOUT /\ ~Pinged(e)

\* A session whose Ping was drained got a Pong and no Ping of the server.
C31_WitnessBusy ==
    /\ pc = "step"
    /\ \E e \in DOMAIN clients :
        /\ \E i \in Drained(e) : log[e][i].msg = Ping
        /\ ~Pinged(e) /\ sent[e] # <<>>

(***************************************************************************)
(* Eviction of chunks.                                                     *)
(***************************************************************************)
\* The chunk k is in view of a client that has a position and a view
\* distance.
Seen(k) ==
    \E e \in DOMAIN clients :
        /\ player[e] # None /\ pos[e] # None
        /\ player[e][1].view_distance # None
        /\ Formula(pos_key(pos[e]), k, player[e][1].view_distance[1])

\* C32: the eviction phase keeps exactly the loaded chunks in view of some
\* client with a position and a view distance; it removes every other loaded
\* chunk and records its key in removed_chunks, and removes no chunk that is
\* in view of such a client.
C32_EvictsUnseen ==
    [][(pc = "evict" /\ pc' = "sync") =>
        /\ terrain' = {k \in terrain : Seen(k)}
        /\ terrain_changes'.removed_chunks =
                terrain_changes.removed_chunks \cup {k \in terrain : ~Seen(k)}
        /\ \A k \in terrain : Seen(k) => k \notin terrain_changes'.removed_chunks]_vars

\* After the eviction one chunk is gone and recorded while another, in view
\* of a client, is still loaded.
C32_Witness ==
    /\ pc = "sync"
    /\ terrain_changes.removed_chunks # {}
    /\ \E k \in terrain : Seen(k)
    /\ \A k \in terrain_changes.removed_chunks : ~Seen(k) /\ k \notin terrain

\* After the eviction the last chunk is gone since no client is left.
C32_WitnessNobody ==
    /\ pc = "sync"
    /\ terrain_changes.removed_chunks # {}
    /\ DOMAIN clients = {}

(***************************************************************************)
(* Block edits within the order of the phases.                             *)
(***************************************************************************)
\* C33, the order of the phases: every position edited while the messages
\* of a tick were drained is, with its latest block, in modified_blocks after
\* the world step of that tick and in the TerrainBlockUpdates sent to every
\* session in the world by the sync of that tick.
C33_BatchOfSameTick ==
    /\ pc = "recv" =>
            \A p \in BlockPositions :
                EditsAt(p) # <<>> => terrain_changes.modified_blocks[p] = Some(LaterEdit(p))
    /\ pc = "cleanup" =>
            \A p \in BlockPositions : \A e \in Ents :
                (EditsAt(p) # <<>> /\ InWorld(e)) =>
                    /\ Len(BlockBatches(sent[e])) = 1
                    /\ BlockBatches(sent[e])[1].blocks[p] = Some(LaterEdit(p))

\* C33: a block edit accepted while the messages of tick t are drained is
\* applied to the terrain by the world step of tick t and is contained in
\* the TerrainBlockUpdates broadcast in tick t.
C33_AppliedInSameTick ==
    /\ pc = "recv" =>
            \A p \in BlockPositions :
                EditsAt(p) # <<>> => blocks[p] = Some(LaterEdit(p))
    /\ C33_BatchOfSameTick

\* An edit of this tick was applied to a loaded chunk by the world step.
C33_WitnessLoaded ==
    /\ pc = "recv"
    /\ \E p \in BlockPositions :
        EditsAt(p) # <<>> /\ blocks[p] = Some(LaterEdit(p)) /\ LaterEdit(p) = Stone

\* C36: after the world step the terrain holds, at every position of
\* modified_blocks that will be broadcast to the sessions in the world, the
\* block of that entry, also when the chunk of the position is not loaded.
C36_BroadcastReflected ==
    (pc = "recv" /\ \E e \in Ents : InWorld(e)) =>
        \A p \in BlockPositions :
            terrain_changes.modified_blocks[p] # None =>
                blocks[p] = terrain_changes.modified_blocks[p]

\* C36 for loaded chunks: after the world step the terrain holds the block
\* of every entry of modified_blocks whose chunk is loaded.
C36_ReflectedWhenLoaded ==
    pc = "recv" =>
        \A p \in BlockPositions :
            (terrain_changes.modified_blocks[p] # None /\ pos_key(p) \in terrain) =>
                blocks[p] = terrain_changes.modified_blocks[p]

\* A session in the world was sent a changed block of a chunk that was not
\* loaded in this tick, and the terrain does not hold the block.
C36_WitnessUnloaded ==
    /\ pc = "cleanup"
    /\ \E p \in BlockPositions : \E e \in Ents :
        /\ InWorld(e)
        /\ Len(BlockBatches(sent[e])) = 1
        /\ BlockBatches(sent[e])[1].blocks[p] = Some(Stone)
        /\ pos_key(p) \notin terrain \cup terrain_changes.removed_chunks
        /\ blocks[p] = None

(***************************************************************************)
(* Pending keys and loaded chunks.                                         *)
(***************************************************************************)
\* C34: no key is both pending and loaded; a job runs and a result waits in
\* the channel only for a key that is pending and not loaded, so a consumed
\* result inserts a new chunk, recorded in new_chunks, and modified_chunks
\* stays empty.
C34_PendingNotLoaded ==
    /\ pending_chunks \cap terrain = {}
    /\ \A k \in Keys : jobs[k] > 0 => k \in pending_chunks
    /\ \A i \in 1..Len(chunk_rx) : chunk_rx[i].key \in pending_chunks
    /\ terrain_changes.modified_chunks = {}
    /\ (pc = "evict" /\ consumed # None) =>
            /\ consumed[1].pending
            /\ consumed[1].key \in terrain_changes.new_chunks

\* A pending result was consumed and recorded as a new chunk beside a chunk
\* loaded before it, and its key is pending no longer.
C34_Witness ==
    /\ pc = "evict"
    /\ consumed # None /\ consumed[1].pending
    /\ consumed[1].key \in terrain_changes.new_chunks
    /\ consumed[1].key \notin pending_chunks
    /\ terrain \ terrain_changes.new_chunks # {}

(***************************************************************************)
(* Progress of generation, checked under SpecGenFair.                      *)
(***************************************************************************)
\* C35: every key that is pending is pending no longer at some later time,
\* its result having been consumed; and a call of generate_chunk for a key
\* that is not pending, be it for the first time or after an earlier result
\* of the key was consumed, makes it pending and starts one job.
C35_PendingIsConsumed ==
    /\ \A k \in Keys : (k \in pending_chunks) ~> (k \notin pending_chunks)
    /\ [][\A k \in Keys :
            /\ (k \in pending_chunks /\ k \notin pending_chunks') =>
                    /\ pc = "recv" /\ chunk_rx # <<>> /\ Head(chunk_rx).key = k
                    /\ k \in terrain'
            /\ (k \notin pending_chunks /\ gen_calls'[k] > gen_calls[k]) =>
                    k \in pending_chunks' /\ jobs'[k] = jobs[k] + 1]_vars

\* The result of one key was consumed and the key is pending no longer,
\* while the result of the other key, completed after it, waits for the poll
\* of the next tick.
C35_Witness ==
    /\ pc = "evict"
    /\ consumed # None /\ consumed[1].pending
    /\ consumed[1].key \notin pending_chunks
    /\ \E k \in pending_chunks : chunk_rx = <<[key |-> k, npcs |-> 0]>>

(***************************************************************************)
(* The rest of a batch after a teardown, checked under SpecBatch.          *)
(***************************************************************************)
\* The drained message r changed nothing: no state of the session, no
\* component of its entity, no chat message and no chunk request queued.
NoEffect(r) ==
    /\ r.from = r.to
    /\ r.entity_from = r.entity_to
    /\ r.chat = <<>>
    /\ r.requested = <<>>

\* C37: the messages of a batch that follow a message which marked the
\* session for teardown have no effect.
C37_NothingAfterTeardown ==
    pc = "step" =>
        \A e \in Ents : \A i, j \in Drained(e) :
            (i < j /\ log[e][i].teardown) => NoEffect(log[e][j])

\* A Register drained behind the Disconnect of its batch was handled: it
\* registered the session and gave the entity its player.
C37_WitnessHandled ==
    /\ pc = "step"
    /\ \E e \in Ents :
        /\ Len(log[e]) = 2
        /\ log[e][1].msg = Disconnect /\ log[e][1].teardown
        /\ log[e][2].handled
        /\ log[e][2].from = "Connected" /\ log[e][2].to = "Registered"
        /\ log[e][2].entity_to.player # None
        /\ e \notin DOMAIN clients

(***************************************************************************)
(* The events returned to the frontend.                                    *)
(***************************************************************************)
\* The event ev tells that the session of entity e was torn down.
IsDisconnected(ev, e) == ev = [type |-> "ClientDisconnected", entity |-> e]

\* The entities for which some tick returned a ClientConnected event: those
\* of the accepted connections that were not refused for want of room.
Announced == (1..uids) \ refused

\* handle_new_connections returns a ClientConnected event for exactly the
\* entities it creates and does not refuse.
C38_AnnouncedIsConnected ==
    [][(pc = "connections" /\ pc' = "messages") =>
        \A e \in Ents :
            ([type |-> "ClientConnected", entity |-> e] \in Range(frontend_events'))
                <=> (e \in (uids + 1)..uids' /\ e \notin refused')]_vars

\* C38, second half: the events of a tick hold at most one ClientDisconnected
\* per entity, and an entity whose session was removed never has a session
\* again, so no later tick returns another one.
C38_AtMostOnce ==
    /\ [](\A e \in Ents :
            Cardinality({i \in 1..Len(frontend_events) :
                            IsDisconnected(frontend_events[i], e)}) <= 1)
    /\ [][\A e \in 1..uids : e \notin DOMAIN clients => e \notin DOMAIN clients']_vars
    /\ [](\A i \in 1..Len(frontend_events) : \A e \in Ents :
            (IsDisconnected(frontend_events[i], e) /\ pc # "messages")
                => e \notin DOMAIN clients)

\* C38: a ClientDisconnected event is returned for an entity only if a
\* ClientConnected event was returned for it by this tick or an earlier one.
C38_DisconnectedWasConnected ==
    \A i \in 1..Len(frontend_events) : \A e \in Ents :
        IsDisconnected(frontend_events[i], e) => e \in Announced

\* The session of a refused connection was torn down and the tick returns
\* its ClientDisconnected, while the session admitted before it stays.
C38_WitnessRefused ==
    /\ pc = "step"
    /\ \E e \in refused :
        /\ \E i \in 1..Len(frontend_events) : IsDisconnected(frontend_events[i], e)
        /\ e \notin DOMAIN clients
    /\ DOMAIN clients # {}

(***************************************************************************)
(* The sync of replaced chunks, checked under SpecRegen.                   *)
(***************************************************************************)
\* C39: when the sync of changed chunks starts, eviction having run before
\* it in the tick, every key of modified_chunks that a client has in view
\* is loaded, so the loop is not left for a missing chunk: after the sync
\* every client has got one TerrainChunkUpdate for each key of
\* modified_chunks it has in view.
C39_ModifiedInViewIsLoaded ==
    /\ pc = "sync" =>
            \A k \in terrain_changes.modified_chunks :
                (\E e \in Ents : InView(e, k)) => k \in terrain
    /\ pc = "cleanup" =>
            \A k \in terrain_changes.modified_chunks : \A e \in Ents :
                InView(e, k) => Updates(sent[e], k) = 1

\* A chunk replaced in this tick was sent to the client that has it in view.
C39_Witness ==
    /\ pc = "cleanup"
    /\ \E k \in terrain_changes.modified_chunks : \E e \in Ents :
        InView(e, k) /\ k \in terrain /\ Updates(sent[e], k) = 1

\* A chunk replaced in this tick was evicted in it, no client having it in
\* view, and the sync sent it to nobody.
C39_WitnessEvicted ==
    /\ pc = "cleanup"
    /\ \E k \in terrain_changes.modified_chunks :
        /\ k \in terrain_changes.removed_chunks
        /\ \A e \in Ents : Updates(sent[e], k) = 0

(***************************************************************************)
(* Every stored snapshot is written, checked under SpecSaveBothFair.       *)
(***************************************************************************)
\* The save loop runs and has not received END.
Saving == save_pc \notin {"done", "panicked"}

\* C40: a snapshot that is in the buffer of set_chunk while the save loop
\* runs and has not received END is written to its file at some later time,
\* unless a newer snapshot of its key has taken its place in the buffer or
\* the loop has received END.
C40_StoredIsWritten ==
    \A k \in Keys : \A v \in 1..MaxStores :
        (chunks[k] = Some(v) /\ Saving)
            ~> \/ files[k] = Some(v)
               \/ chunks[k] # None /\ chunks[k][1] > v
               \/ save_pc = "done"

\* A snapshot is in the buffer and the thread of the save loop has ended
\* in a failed write, having received no END.
C40_WitnessStranded ==
    /\ save_pc = "panicked"
    /\ \E k \in Keys : chunks[k] # None /\ files[k] # chunks[k]
    /\ \E i \in 1..Len(flush) : ~flush[i].ok

=============================================================================
